---------------------------- MODULE Spec2Model ----------------------------
(***************************************************************************)
(* Authentication and session subsystem of homehost:                       *)
(*   services/auth.js        password policy, bcrypt wrappers, JWT issue   *)
(*                           and verify, the in-memory TOKEN_DENYLIST      *)
(*   services/user.js        user repository access through Prisma         *)
(*   controller/authController.js   authenticate (gate), register, login,  *)
(*                           logout                                        *)
(* JavaScript strings are sequences of one-character strings, JavaScript   *)
(* values that reach the token functions are records built by Val.         *)
(***************************************************************************)
EXTENDS Integers, Sequences, FiniteSets, Bags, TLC

\* client is the state of the React component under study in the browser
VARIABLES now, secretSet, TOKEN_DENYLIST, users, reqs, last, everRevoked,
          client

vars == <<now, secretSet, TOKEN_DENYLIST, users, reqs, last, everRevoked,
          client>>

-----------------------------------------------------------------------------
(* Bounds of the model *)

\* the clock runs from 0 to MaxTime
MaxTime == 3

\* number of register and login requests that can be in flight at once
MaxReqs == 2

\* latest issue time of the tokens presented to the token functions
MaxIat == 0

\* number of distinct tokens revoked over a run
MaxRevoked == 2

\* Program constants

\* default expiry '1d' of generateToken, in clock ticks
DayTTL == 2

\* an expiry in the past, as in expiresIn: '-1ms'
PastTTL == -1

\* minimum password length of validatePasswordStrength
MinPasswordLength == 8

-----------------------------------------------------------------------------
(* JavaScript values seen by the token functions *)

Val(typ, uid, iat, exp, key) ==
    [typ |-> typ, uid |-> uid, iat |-> iat, exp |-> exp, key |-> key]

Plain(typ) == Val(typ, 0, 0, 0, "none")

Undefined == Plain("undefined")
Null      == Plain("null")
NumberVal == Plain("number")
ObjectVal == Plain("object")
ArrayVal  == Plain("array")
EmptyStr  == Plain("empty")
\* a string that is not a JWT at all, such as 'invalid.token.string'
Garbage   == Plain("garbage")
JsTrue    == Plain("true")
JsFalse   == Plain("false")

\* user ids as generateToken receives them: a positive integer is that
\* number, and the other values the callers pass are numbered below zero:
\* null, undefined and the string '12345'
NullId      == -1
UndefinedId == -2
StringId    == -3

\* the userId member of the JSON text a token carries, numbered as the ids
\* are; AbsentClaim says that the text has no such member
AbsentClaim == -4

\* JSON.stringify({ userId }) inside jwt.sign: a member whose value is
\* undefined is left out
jsonStringifyKeepsUndefined(userId) ==
    IF userId = UndefinedId THEN NullId ELSE userId

jsonStringify(userId) ==
    IF userId = UndefinedId THEN AbsentClaim ELSE userId

\* JSON.parse(...).userId inside jwt.verify: a member that is not there
\* reads as undefined
jsonParse(claim) ==
    IF claim = AbsentClaim THEN UndefinedId ELSE claim

\* the string jwt.sign({userId}, key, {expiresIn}) returns at time iat; uid
\* is the userId member of its JSON text
Jwt(uid, iat, exp, key) == Val("jwt", uid, iat, exp, key)

\* the object jwt.verify returns
Payload(t) == Val("payload", jsonParse(t.uid), t.iat, t.exp, "none")

\* typeof v === 'string'
IsString(v) == v.typ \in {"empty", "garbage", "jwt"}

\* !v
Falsy(v) == v.typ \in {"undefined", "null", "empty", "false"}

\* the outcome of a call: a returned value or a thrown error
Ret(v) == [threw |-> FALSE, name |-> "", message |-> "", value |-> v]

Throw(n, m) == [threw |-> TRUE, name |-> n, message |-> m, value |-> Undefined]

-----------------------------------------------------------------------------
(* Token Issuer/Verifier and Session Revocation Store (services/auth.js) *)

\* jwt.verify(token, secret): structure, then signature, then expiry
jwtVerify(token, t) ==
    IF Falsy(token) \/ ~IsString(token)
    THEN Throw("JsonWebTokenError", "jwt must be provided")
    ELSE IF token.typ # "jwt"
    THEN Throw("JsonWebTokenError", "jwt malformed")
    ELSE IF token.key # "secret"
    THEN Throw("JsonWebTokenError", "invalid signature")
    ELSE IF t >= token.exp
    THEN Throw("TokenExpiredError", "jwt expired")
    ELSE Ret(Payload(token))

generateToken(userId, expiry, secret, t) ==
    IF ~secret
    THEN Throw("Error", "JWT_SECRET environment variable is not set")
    ELSE Ret(Jwt(jsonStringify(userId), t, t + expiry, "secret"))

\* an error that is an instance of jwt.JsonWebTokenError: the class itself
\* and its subclasses
IsJsonWebTokenError(name) ==
    name \in {"JsonWebTokenError", "TokenExpiredError", "NotBeforeError"}

verifyTokenBaseClassFirst(token, secret, t) ==
    IF ~secret
    THEN Throw("Error", "JWT_SECRET environment variable is not set")
    ELSE LET r == jwtVerify(token, t)
         IN  IF ~r.threw THEN r
             ELSE IF IsJsonWebTokenError(r.name)
             THEN Throw("Error", "Invalid token")
             ELSE IF r.name = "TokenExpiredError"
             THEN Throw("Error", "Token has expired")
             ELSE Throw("Error", "Token verification failed")

verifyTokenChecksSecretLast(token, secret, t) ==
    LET r == jwtVerify(token, t)
    IN  IF r.threw /\ r.name = "TokenExpiredError"
        THEN Throw("Error", "Token has expired")
        ELSE IF r.threw /\ IsJsonWebTokenError(r.name)
        THEN Throw("Error", "Invalid token")
        ELSE IF r.threw
        THEN Throw("Error", "Token verification failed")
        ELSE IF ~secret
        THEN Throw("Error", "JWT_SECRET environment variable is not set")
        ELSE r

verifyToken(token, secret, t) ==
    IF ~secret
    THEN Throw("Error", "JWT_SECRET environment variable is not set")
    ELSE LET r == jwtVerify(token, t)
         IN  IF ~r.threw THEN r
             ELSE IF r.name = "TokenExpiredError"
             THEN Throw("Error", "Token has expired")
             ELSE IF IsJsonWebTokenError(r.name)
             THEN Throw("Error", "Invalid token")
             ELSE Throw("Error", "Token verification failed")

\* invalidateToken: the outcome, the denylist it leaves and the functions it
\* called
invalidateTokenAddsUnverified(token, denylist, secret, t) ==
    IF Falsy(token) \/ ~IsString(token)
    THEN [res |-> Throw("Error", "Invalid token format"), denylist |-> denylist,
          calls |-> {}]
    ELSE [res |-> Ret(JsTrue), denylist |-> denylist \cup {token},
          calls |-> {"verifyToken"}]

invalidateTokenReplaces(token, denylist, secret, t) ==
    IF Falsy(token) \/ ~IsString(token)
    THEN [res |-> Throw("Error", "Invalid token format"), denylist |-> denylist,
          calls |-> {}]
    ELSE IF verifyToken(token, secret, t).threw
    THEN [res |-> Ret(JsFalse), denylist |-> denylist, calls |-> {"verifyToken"}]
    ELSE [res |-> Ret(JsTrue), denylist |-> {token}, calls |-> {"verifyToken"}]

invalidateTokenSwallowsFormat(token, denylist, secret, t) ==
    IF verifyToken(token, secret, t).threw
    THEN [res |-> Ret(JsFalse), denylist |-> denylist, calls |-> {"verifyToken"}]
    ELSE [res |-> Ret(JsTrue), denylist |-> denylist \cup {token},
          calls |-> {"verifyToken"}]

invalidateTokenPropagatesConfig(token, denylist, secret, t) ==
    IF Falsy(token) \/ ~IsString(token)
    THEN [res |-> Throw("Error", "Invalid token format"), denylist |-> denylist,
          calls |-> {}]
    ELSE IF ~secret
    THEN [res |-> verifyToken(token, secret, t), denylist |-> denylist,
          calls |-> {"verifyToken"}]
    ELSE IF verifyToken(token, secret, t).threw
    THEN [res |-> Ret(JsFalse), denylist |-> denylist, calls |-> {"verifyToken"}]
    ELSE [res |-> Ret(JsTrue), denylist |-> denylist \cup {token},
          calls |-> {"verifyToken"}]

invalidateTokenIgnoresExpiry(token, denylist, secret, t) ==
    IF Falsy(token) \/ ~IsString(token)
    THEN [res |-> Throw("Error", "Invalid token format"), denylist |-> denylist,
          calls |-> {}]
    ELSE IF ~secret \/ token.typ # "jwt" \/ token.key # "secret"
    THEN [res |-> Ret(JsFalse), denylist |-> denylist, calls |-> {"verifyToken"}]
    ELSE [res |-> Ret(JsTrue), denylist |-> denylist \cup {token},
          calls |-> {"verifyToken"}]

invalidateToken(token, denylist, secret, t) ==
    IF Falsy(token) \/ ~IsString(token)
    THEN [res |-> Throw("Error", "Invalid token format"), denylist |-> denylist,
          calls |-> {}]
    ELSE IF verifyToken(token, secret, t).threw
    THEN [res |-> Ret(JsFalse), denylist |-> denylist, calls |-> {"verifyToken"}]
    ELSE [res |-> Ret(JsTrue), denylist |-> denylist \cup {token},
          calls |-> {"verifyToken"}]

isTokenInvalidFailOpen(token, denylist) ==
    token \in denylist

isTokenInvalid(token, denylist) ==
    IF Falsy(token) \/ ~IsString(token)
    THEN TRUE
    ELSE token \in denylist

clearTokenDenylist(denylist) == {}

-----------------------------------------------------------------------------
(* The values callers pass to the token functions *)

\* user ids a token can carry: the id of the first record and an id that no
\* record has
Subjects == {1, 9}

NonStrings == {Undefined, Null, NumberVal, ObjectVal, ArrayVal}

\* a token signed with another key, and one signed with an elapsed expiry
ForgedJwt  == Jwt(1, 0, DayTTL, "wrong")
ElapsedJwt == Jwt(1, 0, PastTTL, "secret")

\* every token string that can exist at time t: signed by generateToken at
\* some iat <= t (iat capped at MaxIat) with the default expiry
JwtsAt(t) ==
    { Jwt(u, i, i + DayTTL, "secret") :
        u \in Subjects, i \in { j \in 0..t : j <= MaxIat } }
    \cup {ForgedJwt, ElapsedJwt}

StringArgsAt(t) == {Garbage} \cup JwtsAt(t)

\* the user ids the tests of generateToken pass besides numbers
OtherIds == {NullId, UndefinedId, StringId}

\* tokens that only verifyToken is given: one wrongly signed and expired, and
\* the tokens generateToken issues for the other ids
ElapsedForgedJwt == Jwt(1, 0, PastTTL, "wrong")

OtherJwts ==
    {ElapsedForgedJwt}
    \cup { Jwt(jsonStringify(u), 0, DayTTL, "secret") : u \in OtherIds }

TokenArgsAt(t) == NonStrings \cup {EmptyStr} \cup StringArgsAt(t)

\* req.headers.authorization as the list of its space-separated parts
BearerWord == Plain("bearer")

HeadersAt(t) ==
    {<<>>, <<BearerWord>>, <<BearerWord, EmptyStr>>}
    \cup { <<BearerWord, x>> : x \in StringArgsAt(t) }

\* authorization?.split(' ')[1]
secondPart(h) == IF Len(h) >= 2 THEN h[2] ELSE Undefined

\* a || b
OrElse(a, b) == IF Falsy(a) THEN b ELSE a

-----------------------------------------------------------------------------
(* JavaScript strings of the request bodies: sequences of characters *)

Uppers == <<"A", "B", "C", "D", "E", "F", "G", "H", "I", "J", "K", "L", "M",
            "N", "O", "P", "Q", "R", "S", "T", "U", "V", "W", "X", "Y", "Z">>

Lowers == <<"a", "b", "c", "d", "e", "f", "g", "h", "i", "j", "k", "l", "m",
            "n", "o", "p", "q", "r", "s", "t", "u", "v", "w", "x", "y", "z">>

LowerChar(c) ==
    IF \E i \in DOMAIN Uppers : Uppers[i] = c
    THEN Lowers[CHOOSE i \in DOMAIN Uppers : Uppers[i] = c]
    ELSE c

\* String.prototype.toLowerCase
toLowerCase(s) == [i \in DOMAIN s |-> LowerChar(s[i])]

\* a body field that is absent
UndefinedStr == <<"undefined">>

\* a body field or an argument that is null
NullStr == <<"null">>

\* !s for a body field or a string argument
FalsyStr(s) == s = <<>> \/ s = UndefinedStr \/ s = NullStr

Whitespace == {" ", "\t", "\n"}

\* /^[^\s@]+@[^\s@]+\.[^\s@]+$/
isValidEmail(email) ==
    \E i \in DOMAIN email : \E j \in DOMAIN email :
        /\ email[i] = "@"
        /\ email[j] = "."
        /\ 1 < i
        /\ i + 1 < j
        /\ j < Len(email)
        /\ \A k \in DOMAIN email :
              /\ email[k] \notin Whitespace
              /\ (email[k] = "@" => k = i)

EmailA   == <<"A", "@", "x", ".", "c">>
EmailaX  == <<"a", "@", "X", ".", "c">>
Emaila   == <<"a", "@", "x", ".", "c">>
EmailB   == <<"b", "@", "x", ".", "c">>
EmailBad == <<"a", "@", "x">>

User1 == <<"u", "1">>
User2 == <<"u", "2">>

PwGood  == <<"p", "a", "s", "s", "w", "0", "r", "d">>
PwOther == <<"S", "e", "c", "r", "e", "t", "!", "!">>
PwShort == <<"p", "w", "1">>
PwPlain == <<"p", "a", "s", "s", "w", "o", "r", "d">>

-----------------------------------------------------------------------------
(* Credential Hasher (services/auth.js) and user repository (Prisma) *)

\* bcrypt.hash: a digest that only matches the plaintext it was made from
bcryptHash(plainText) == [alg |-> "bcrypt", of |-> plainText]

\* bcrypt.compare
bcryptCompare(plainText, hash) == hash.alg = "bcrypt" /\ hash.of = plainText

\* the digests that are the empty string, null and undefined, and a string
\* that bcrypt did not make
NoHash == [alg |-> "none", of |-> <<>>]

NullHash == [alg |-> "null", of |-> <<>>]

UndefinedHash == [alg |-> "undefined", of |-> <<>>]

GarbageHash == [alg |-> "garbage", of |-> <<>>]

\* !hash
FalsyHash(hash) == hash.alg \in {"none", "null", "undefined"}

\* the outcome of an awaited call of the hasher: whether it threw and with
\* what message, the value it returned, and the bcrypt functions it called
Hashed(threw, message, value, digest, calls) ==
    [threw |-> threw, message |-> message, value |-> value, digest |-> digest,
     calls |-> calls]

\* hashPassword(plainText); hashThrows says that bcrypt.hash throws
hashPasswordOfAnything(plainText, hashThrows) ==
    IF hashThrows
    THEN Hashed(TRUE, "Failed to hash password: Illegal arguments", FALSE,
                NoHash, {"bcrypt.hash"})
    ELSE Hashed(FALSE, "", TRUE, bcryptHash(plainText), {"bcrypt.hash"})

hashPassword(plainText, hashThrows) ==
    IF FalsyStr(plainText)
    THEN Hashed(TRUE, "Password cannot be empty", FALSE, NoHash, {})
    ELSE IF hashThrows
    THEN Hashed(TRUE, "Failed to hash password: Illegal arguments", FALSE,
                NoHash, {"bcrypt.hash"})
    ELSE Hashed(FALSE, "", TRUE, bcryptHash(plainText), {"bcrypt.hash"})

\* verifyPassword(plainText, hash) in full; compareThrows says that
\* bcrypt.compare throws
verifyPasswordOutcomeRethrows(plainText, hash, compareThrows) ==
    IF compareThrows
    THEN Hashed(TRUE, "Illegal arguments", FALSE, NoHash, {"bcrypt.compare"})
    ELSE Hashed(FALSE, "", bcryptCompare(plainText, hash), NoHash,
                {"bcrypt.compare"})

verifyPasswordOutcome(plainText, hash, compareThrows) ==
    IF FalsyStr(plainText) \/ FalsyHash(hash)
    THEN Hashed(FALSE, "", FALSE, NoHash, {})
    ELSE IF compareThrows
    THEN Hashed(FALSE, "", FALSE, NoHash, {"bcrypt.compare"})
    ELSE Hashed(FALSE, "", bcryptCompare(plainText, hash), NoHash,
                {"bcrypt.compare"})

\* verifyPassword when bcrypt.compare works
verifyPassword(plainText, hash) ==
    verifyPasswordOutcome(plainText, hash, FALSE).value

\* null, as a record of the User table would look
NoUser == [id |-> 0, email |-> <<>>, username |-> <<>>, password |-> NoHash]

\* const { password, ...userWithoutPassword } = user
WithoutPassword(u) == [id |-> u.id, email |-> u.email, username |-> u.username]

NoPrincipal == WithoutPassword(NoUser)

\* prisma.user.findUnique({ where: { id } })
findUnique(id, us) ==
    IF \E u \in us : u.id = id
    THEN CHOOSE u \in us : u.id = id
    ELSE NoUser

\* prisma.user.findFirst({ where: { email: { equals } } })
findFirst(email, us) ==
    IF \E u \in us : u.email = email
    THEN CHOOSE u \in us : u.email = email
    ELSE NoUser

getUserById(id, us) ==
    LET user == findUnique(id, us)
    IN  IF user = NoUser THEN NoPrincipal ELSE WithoutPassword(user)

getUserByEmail(email, us) ==
    LET user == findFirst(toLowerCase(email), us)
    IN  IF user = NoUser THEN NoPrincipal ELSE WithoutPassword(user)

\* a record the database holds when the process starts
SeedUser ==
    [id |-> 1, email |-> Emaila, username |-> User1,
     password |-> bcryptHash(PwGood)]

-----------------------------------------------------------------------------
(* Authentication Gate and logout (controller/authController.js) *)

Err(field, message) == [field |-> field, message |-> message]

formatErrorResponse(status, message, errors) ==
    [status |-> status, message |-> message, errors |-> errors, success |-> FALSE]

NoResponse == formatErrorResponse(0, "", <<>>)

\* what a handler did with (req, res, next)
Outcome(http, user, nextCalls, calls, cleared) ==
    [http |-> http, user |-> user, nextCalls |-> nextCalls, calls |-> calls,
     cookieCleared |-> cleared]

NoOutcome == Outcome(NoResponse, NoPrincipal, 0, {}, FALSE)

TokenMissing ==
    formatErrorResponse(401, "Authentication failed",
                        <<Err("auth", "Authentication token missing")>>)

InvalidAuthToken ==
    formatErrorResponse(401, "Authentication failed",
                        <<Err("auth", "Invalid authentication token")>>)

AuthServerError ==
    formatErrorResponse(500, "Server error",
                        <<Err("general", "Server error during authentication")>>)

\* the value has a catch method, as a promise has
HasCatch(v) == v.typ = "promise"

\* the catch block of authenticate
authenticateCatch(name, isTokenError, calls) ==
    IF isTokenError \/ name = "JsonWebTokenError" \/ name = "TokenExpiredError"
    THEN Outcome(InvalidAuthToken, NoPrincipal, 0, calls, FALSE)
    ELSE Outcome(AuthServerError, NoPrincipal, 0, calls, FALSE)

authenticateTokenRespondsAndContinues(token, us, secret, t) ==
    IF Falsy(token)
    THEN Outcome(TokenMissing, NoPrincipal, 1, {"next"}, FALSE)
    ELSE LET r == verifyToken(token, secret, t)
         IN  IF r.threw
             THEN authenticateCatch(r.name, FALSE, {"verifyToken"})
             ELSE IF ~HasCatch(r.value)
             THEN authenticateCatch("TypeError", FALSE, {"verifyToken"})
             ELSE LET user == getUserById(r.value.uid, us)
                  IN  IF user = NoPrincipal
                      THEN Outcome(InvalidAuthToken, NoPrincipal, 0,
                                   {"verifyToken", "getUserById"}, FALSE)
                      ELSE Outcome(NoResponse, user, 1,
                                   {"verifyToken", "getUserById", "next"},
                                   FALSE)

\* authenticate from the missing-token test on. verifyToken is a plain
\* function: when it throws, the error leaves the expression before catch is
\* attached, and when it returns, the payload has no catch method and the call
\* of it raises a TypeError.
authenticateToken(token, us, secret, t) ==
    IF Falsy(token)
    THEN Outcome(TokenMissing, NoPrincipal, 0, {}, FALSE)
    ELSE LET r == verifyToken(token, secret, t)
         IN  IF r.threw
             THEN authenticateCatch(r.name, FALSE, {"verifyToken"})
             ELSE IF ~HasCatch(r.value)
             THEN authenticateCatch("TypeError", FALSE, {"verifyToken"})
             ELSE LET user == getUserById(r.value.uid, us)
                  IN  IF user = NoPrincipal
                      THEN Outcome(InvalidAuthToken, NoPrincipal, 0,
                                   {"verifyToken", "getUserById"}, FALSE)
                      ELSE Outcome(NoResponse, user, 1,
                                   {"verifyToken", "getUserById", "next"},
                                   FALSE)

authenticateOrBearer(cookie, header, us, secret, t) ==
    authenticateToken(OrElse(cookie, secondPart(header)), us, secret, t)

\* authenticate(req, res, next): the token is req.cookies?.auth_token
authenticate(cookie, header, us, secret, t) ==
    authenticateToken(cookie, us, secret, t)

LoggedOut ==
    [status |-> 200, message |-> "Successfully logged out", errors |-> <<>>,
     success |-> TRUE]

LogoutServerError ==
    formatErrorResponse(500, "Server error",
                        <<Err("general", "Server error during logout")>>)

logoutFailsOnRevocationError(cookie, header, clearThrows, denylist, secret, t) ==
    IF clearThrows
    THEN [out |-> Outcome(LogoutServerError, NoPrincipal, 0, {}, FALSE),
          denylist |-> denylist, res |-> Ret(Undefined)]
    ELSE LET token == OrElse(secondPart(header), cookie)
         IN  IF ~Falsy(token)
             THEN LET inv == invalidateToken(token, denylist, secret, t)
                  IN  [out |-> Outcome(IF inv.res.threw THEN LogoutServerError
                                       ELSE LoggedOut, NoPrincipal, 0,
                                       {"invalidateToken"}, TRUE),
                       denylist |-> inv.denylist, res |-> inv.res]
             ELSE [out |-> Outcome(LoggedOut, NoPrincipal, 0, {}, TRUE),
                   denylist |-> denylist, res |-> Ret(Undefined)]

logoutCookieFirst(cookie, header, clearThrows, denylist, secret, t) ==
    IF clearThrows
    THEN [out |-> Outcome(LogoutServerError, NoPrincipal, 0, {}, FALSE),
          denylist |-> denylist, res |-> Ret(Undefined)]
    ELSE LET token == OrElse(cookie, secondPart(header))
         IN  IF ~Falsy(token)
             THEN LET inv == invalidateToken(token, denylist, secret, t)
                  IN  [out |-> Outcome(LoggedOut, NoPrincipal, 0,
                                       {"invalidateToken"}, TRUE),
                       denylist |-> inv.denylist, res |-> inv.res]
             ELSE [out |-> Outcome(LoggedOut, NoPrincipal, 0, {}, TRUE),
                   denylist |-> denylist, res |-> Ret(Undefined)]

logoutReportsRepeat(cookie, header, clearThrows, denylist, secret, t) ==
    IF clearThrows
    THEN [out |-> Outcome(LogoutServerError, NoPrincipal, 0, {}, FALSE),
          denylist |-> denylist, res |-> Ret(Undefined)]
    ELSE LET token == OrElse(secondPart(header), cookie)
         IN  IF ~Falsy(token) /\ token \in denylist
             THEN [out |-> Outcome(formatErrorResponse(400, "Already logged out",
                                                       <<>>),
                                   NoPrincipal, 0, {}, TRUE),
                   denylist |-> denylist, res |-> Ret(Undefined)]
             ELSE IF ~Falsy(token)
             THEN LET inv == invalidateToken(token, denylist, secret, t)
                  IN  [out |-> Outcome(LoggedOut, NoPrincipal, 0,
                                       {"invalidateToken"}, TRUE),
                       denylist |-> inv.denylist, res |-> inv.res]
             ELSE [out |-> Outcome(LoggedOut, NoPrincipal, 0, {}, TRUE),
                   denylist |-> denylist, res |-> Ret(Undefined)]

logoutRevokesFirst(cookie, header, clearThrows, denylist, secret, t) ==
    LET token == OrElse(secondPart(header), cookie)
        inv == invalidateToken(token, denylist, secret, t)
    IN  IF ~Falsy(token)
        THEN [out |-> Outcome(IF clearThrows THEN LogoutServerError
                              ELSE LoggedOut, NoPrincipal, 0,
                              {"invalidateToken"}, ~clearThrows),
              denylist |-> inv.denylist, res |-> inv.res]
        ELSE [out |-> Outcome(IF clearThrows THEN LogoutServerError
                              ELSE LoggedOut, NoPrincipal, 0, {}, ~clearThrows),
              denylist |-> denylist, res |-> Ret(Undefined)]

\* logout(req, res): the outcome and the denylist it leaves. clearThrows
\* says that res.clearCookie throws.
logout(cookie, header, clearThrows, denylist, secret, t) ==
    IF clearThrows
    THEN [out |-> Outcome(LogoutServerError, NoPrincipal, 0, {}, FALSE),
          denylist |-> denylist, res |-> Ret(Undefined)]
    ELSE LET token == OrElse(secondPart(header), cookie)
         IN  IF ~Falsy(token)
             THEN LET inv == invalidateToken(token, denylist, secret, t)
                  IN  [out |-> Outcome(LoggedOut, NoPrincipal, 0,
                                       {"invalidateToken"}, TRUE),
                       denylist |-> inv.denylist, res |-> inv.res]
             ELSE [out |-> Outcome(LoggedOut, NoPrincipal, 0, {}, TRUE),
                   denylist |-> denylist, res |-> Ret(Undefined)]

-----------------------------------------------------------------------------
(* State *)

\* the most recent call of a token function or of a synchronous handler
\* together with the time and the configuration it ran under
Call(op, arg, hdr, fail, res, out) ==
    [op |-> op, arg |-> arg, hdr |-> hdr, fail |-> fail, res |-> res,
     out |-> out, at |-> now, secret |-> secretSet]

NoCall ==
    [op |-> "none", arg |-> Undefined, hdr |-> <<>>, fail |-> FALSE,
     res |-> Ret(Undefined), out |-> NoOutcome, at |-> 0, secret |-> FALSE]

\* no component is mounted
NoClient == [component |-> "none"]

\* the token functions called directly, on an empty database
InitTok ==
    /\ now = 0
    /\ secretSet \in BOOLEAN
    /\ TOKEN_DENYLIST = {}
    /\ users = {}
    /\ reqs = EmptyBag
    /\ last = NoCall
    /\ everRevoked = {}
    /\ client = NoClient

\* the gate and logout, on a database that holds one record
InitGate ==
    /\ now = 0
    /\ secretSet \in BOOLEAN
    /\ TOKEN_DENYLIST = {}
    /\ users = {SeedUser}
    /\ reqs = EmptyBag
    /\ last = NoCall
    /\ everRevoked = {}
    /\ client = NoClient

\* time passes
Tick ==
    /\ now < MaxTime
    /\ now' = now + 1
    /\ UNCHANGED <<client, secretSet, TOKEN_DENYLIST, users, reqs, last, everRevoked>>

\* process.env.JWT_SECRET is set or deleted
SetSecret ==
    /\ ~secretSet
    /\ secretSet' = TRUE
    /\ UNCHANGED <<client, now, TOKEN_DENYLIST, users, reqs, last, everRevoked>>

DeleteSecret ==
    /\ secretSet
    /\ secretSet' = FALSE
    /\ UNCHANGED <<client, now, TOKEN_DENYLIST, users, reqs, last, everRevoked>>

SvcGenerateToken(userId, expiry) ==
    /\ last' = Call("generateToken", Val("subject", userId, 0, expiry, "none"),
                    <<>>, FALSE,
                    generateToken(userId, expiry, secretSet, now), NoOutcome)
    /\ UNCHANGED <<client, now, secretSet, TOKEN_DENYLIST, users, reqs, everRevoked>>

SvcVerifyTokenConsultsDenylist(token) ==
    /\ last' = Call("verifyToken", token, <<>>, FALSE,
                    IF token \in TOKEN_DENYLIST
                    THEN Throw("Error", "Token has been invalidated")
                    ELSE verifyToken(token, secretSet, now), NoOutcome)
    /\ UNCHANGED <<client, now, secretSet, TOKEN_DENYLIST, users, reqs, everRevoked>>

SvcVerifyToken(token) ==
    /\ last' = Call("verifyToken", token, <<>>, FALSE,
                    verifyToken(token, secretSet, now), NoOutcome)
    /\ UNCHANGED <<client, now, secretSet, TOKEN_DENYLIST, users, reqs, everRevoked>>

\* the tokens revoked so far, after a call of invalidateToken with outcome res
Revoked(token, res, ever) ==
    IF res = Ret(JsTrue) THEN ever \cup {token} ELSE ever

SvcInvalidateToken(token) ==
    LET inv == invalidateToken(token, TOKEN_DENYLIST, secretSet, now)
    IN  /\ Cardinality(Revoked(token, inv.res, everRevoked)) <= MaxRevoked
        /\ TOKEN_DENYLIST' = inv.denylist
        /\ everRevoked' = Revoked(token, inv.res, everRevoked)
        /\ last' = Call("invalidateToken", token, <<>>, FALSE, inv.res,
                        Outcome(NoResponse, NoPrincipal, 0, inv.calls, FALSE))
        /\ UNCHANGED <<client, now, secretSet, users, reqs>>

SvcIsTokenInvalid(token) ==
    /\ last' = Call("isTokenInvalid", token, <<>>, FALSE,
                    Ret(IF isTokenInvalid(token, TOKEN_DENYLIST)
                        THEN JsTrue ELSE JsFalse), NoOutcome)
    /\ UNCHANGED <<client, now, secretSet, TOKEN_DENYLIST, users, reqs, everRevoked>>

SvcClearTokenDenylist ==
    /\ TOKEN_DENYLIST' = clearTokenDenylist(TOKEN_DENYLIST)
    /\ last' = Call("clearTokenDenylist", Undefined, <<>>, FALSE,
                    Ret(Undefined), NoOutcome)
    /\ UNCHANGED <<client, now, secretSet, users, reqs, everRevoked>>

AuthenticateConsultsDenylist(cookie, header) ==
    /\ last' = Call("authenticate", cookie, header, FALSE, Ret(Undefined),
                    IF cookie \in TOKEN_DENYLIST
                    THEN Outcome(InvalidAuthToken, NoPrincipal, 0,
                                 {"isTokenInvalid"}, FALSE)
                    ELSE authenticate(cookie, header, users, secretSet, now))
    /\ UNCHANGED <<client, now, secretSet, TOKEN_DENYLIST, users, reqs, everRevoked>>

\* GET /me reaches the gate
Authenticate(cookie, header) ==
    /\ last' = Call("authenticate", cookie, header, FALSE, Ret(Undefined),
                    authenticate(cookie, header, users, secretSet, now))
    /\ UNCHANGED <<client, now, secretSet, TOKEN_DENYLIST, users, reqs, everRevoked>>

\* POST /logout
Logout(cookie, header, clearThrows) ==
    LET lo == logout(cookie, header, clearThrows, TOKEN_DENYLIST, secretSet, now)
        token == OrElse(secondPart(header), cookie)
    IN  /\ Cardinality(Revoked(token, lo.res, everRevoked)) <= MaxRevoked
        /\ TOKEN_DENYLIST' = lo.denylist
        /\ everRevoked' = Revoked(token, lo.res, everRevoked)
        /\ last' = Call("logout", cookie, header, clearThrows, lo.res, lo.out)
        /\ UNCHANGED <<client, now, secretSet, users, reqs>>

\* the requests that reach the gate: any cookie, with or without a header
\* that carries a token
GateRequestsAt(t) ==
    { <<c, h>> : c \in TokenArgsAt(t),
                 h \in {<<>>, <<BearerWord, Jwt(1, 0, DayTTL, "secret")>>} }

\* the requests that reach logout: a cookie alone, a header alone, or a
\* header next to the cookie of the first record's token
LogoutRequestsAt(t) ==
    { <<c, <<>>>> : c \in TokenArgsAt(t) }
    \cup { <<Undefined, h>> : h \in HeadersAt(t) }
    \cup { <<Jwt(1, 0, DayTTL, "secret"), h>> : h \in HeadersAt(t) }

NextTok ==
    \/ Tick
    \/ SetSecret
    \/ DeleteSecret
    \/ \E u \in Subjects \cup OtherIds, e \in {DayTTL, PastTTL} :
          SvcGenerateToken(u, e)
    \/ \E tok \in TokenArgsAt(now) \cup OtherJwts : SvcVerifyToken(tok)
    \/ \E tok \in TokenArgsAt(now) : SvcInvalidateToken(tok)
    \/ \E tok \in TokenArgsAt(now) : SvcIsTokenInvalid(tok)
    \/ SvcClearTokenDenylist

NextGate ==
    \/ Tick
    \/ SetSecret
    \/ DeleteSecret
    \/ \E q \in GateRequestsAt(now) : Authenticate(q[1], q[2])
    \/ \E q \in LogoutRequestsAt(now), f \in BOOLEAN : Logout(q[1], q[2], f)

SpecTok == InitTok /\ [][NextTok]_vars

SpecGate == InitGate /\ [][NextGate]_vars

-----------------------------------------------------------------------------
(* Properties of the gate, of logout and of the revocation store *)

\* what verifyToken gave for the token of the most recent call, when called
LastVerify == verifyToken(last.arg, last.secret, last.at)

\* the token of the most recent call failed verification for a reason of its
\* own: expired, wrongly signed or malformed
LastTokenReason ==
    /\ LastVerify.threw
    /\ LastVerify.message \in {"Token has expired", "Invalid token"}

\* the non-empty strings and the other values a caller can pass
AllStrings == StringArgsAt(MaxTime)

NotNonEmptyStrings == NonStrings \cup {EmptyStr}

\* C1: a request whose cookie token verifies and whose subject is an existing
\* user is admitted by the gate: req.user is that user, next() is called once
\* and no response is sent.
C1_GateAdmitsVerifiedToken ==
    ( /\ last.op = "authenticate"
      /\ ~Falsy(last.arg)
      /\ ~LastVerify.threw
      /\ getUserById(LastVerify.value.uid, users) # NoPrincipal )
    => ( /\ last.out.user = getUserById(LastVerify.value.uid, users)
         /\ last.out.nextCalls = 1
         /\ last.out.http = NoResponse )

\* C2: a request whose cookie token is present but expired, wrongly signed or
\* malformed gets 401 'Invalid authentication token', never 500, with no user
\* lookup and no call of next().
C2_GateRejectsBadToken ==
    ( /\ last.op = "authenticate"
      /\ ~Falsy(last.arg)
      /\ LastTokenReason )
    => ( /\ last.out.http = InvalidAuthToken
         /\ "getUserById" \notin last.out.calls
         /\ last.out.nextCalls = 0 )

\* C3: after invalidateToken(t) returned true isTokenInvalid(t) is true; a
\* non-empty string that was never successfully revoked is not invalid; null,
\* undefined, the empty string and non-strings are invalid.
C3_RevocationRoundTrip ==
    /\ (last.op = "invalidateToken" /\ last.res = Ret(JsTrue))
          => isTokenInvalid(last.arg, TOKEN_DENYLIST)
    /\ \A s \in AllStrings :
          s \notin everRevoked => ~isTokenInvalid(s, TOKEN_DENYLIST)
    /\ \A x \in NotNonEmptyStrings : isTokenInvalid(x, TOKEN_DENYLIST)

\* a token was just revoked while another valid token was left alone
C3_Witness ==
    /\ last.op = "invalidateToken"
    /\ last.res = Ret(JsTrue)
    /\ last.arg \in TOKEN_DENYLIST
    /\ \E s \in JwtsAt(now) :
          /\ s # last.arg
          /\ ~verifyToken(s, secretSet, now).threw
          /\ ~isTokenInvalid(s, TOKEN_DENYLIST)

\* C4 as stated: every logout request clears the cookie and gets the 200
\* success response.
C4_LogoutAlwaysSucceeds ==
    last.op = "logout"
    => (last.out.cookieCleared /\ last.out.http = LoggedOut)

\* C4: every logout request in which clearing the cookie does not throw
\* clears the cookie and gets the 200 success response, whatever token it
\* carries and whatever invalidateToken does; when clearing the cookie throws
\* the response is 500.
C4_LogoutSucceeds ==
    last.op = "logout"
    => IF last.fail
       THEN last.out.http = LogoutServerError
       ELSE last.out.cookieCleared /\ last.out.http = LoggedOut

\* a logout whose invalidateToken threw
C4_Witness ==
    /\ last.op = "logout"
    /\ ~last.fail
    /\ last.res.threw
    /\ last.out.http = LoggedOut

\* C8: with the cookie absent or empty the gate answers 401 'Authentication
\* token missing' and calls neither verifyToken, getUserById nor next(), also
\* when an Authorization header carries a valid token.
C8_GateReadsCookieOnly ==
    (last.op = "authenticate" /\ Falsy(last.arg))
    => last.out = Outcome(TokenMissing, NoPrincipal, 0, {}, FALSE)

\* the cookie was absent and the header carried a token that verified
C8_Witness ==
    /\ last.op = "authenticate"
    /\ Falsy(last.arg)
    /\ Len(last.hdr) = 2
    /\ ~verifyToken(last.hdr[2], last.secret, last.at).threw
    /\ last.out.http = TokenMissing

\* C9: when the token verifies and no user has its subject, the gate sends
\* the 401 'Invalid authentication token' response it sends for a bad token,
\* and does not call next().
C9_UnknownPrincipalLikeBadToken ==
    ( /\ last.op = "authenticate"
      /\ ~Falsy(last.arg)
      /\ ~LastVerify.threw
      /\ getUserById(LastVerify.value.uid, users) = NoPrincipal )
    => ( /\ last.out.http = InvalidAuthToken
         /\ last.out.nextCalls = 0 )

\* C10 as stated: after invalidateToken(t) returned false for a non-empty
\* string t that does not verify, isTokenInvalid(t) is false.
C10_FailedRevokeLeavesValid ==
    ( /\ last.op = "invalidateToken"
      /\ IsString(last.arg) /\ ~Falsy(last.arg)
      /\ LastVerify.threw )
    => ( /\ last.res = Ret(JsFalse)
         /\ ~isTokenInvalid(last.arg, TOKEN_DENYLIST) )

\* C10: invalidateToken(t) for a non-empty string t that does not verify
\* returns false, throws nothing and leaves the denylist as it was, so that
\* isTokenInvalid(t) keeps the value it had before the call.
C10_FailedRevokeIsNoOp ==
    [][ ( /\ last' # last
          /\ last'.op = "invalidateToken"
          /\ IsString(last'.arg) /\ ~Falsy(last'.arg)
          /\ verifyToken(last'.arg, secretSet, now).threw )
        => ( /\ last'.res = Ret(JsFalse)
             /\ TOKEN_DENYLIST' = TOKEN_DENYLIST
             /\ isTokenInvalid(last'.arg, TOKEN_DENYLIST')
                  = isTokenInvalid(last'.arg, TOKEN_DENYLIST) ) ]_vars

\* an expired token was just passed to invalidateToken
C10_Witness ==
    /\ last.op = "invalidateToken"
    /\ LastVerify.threw
    /\ LastVerify.message = "Token has expired"
    /\ last.res = Ret(JsFalse)

-----------------------------------------------------------------------------
(* Password Policy (services/auth.js) and the register and login use cases *)

Digits == {"0", "1", "2", "3", "4", "5", "6", "7", "8", "9"}

\* the symbols of /[0-9!@#$%^&*()_+\-=[\]{};':"\\|,.<>/?]/
Specials ==
    {"!", "@", "#", "$", "%", "^", "&", "*", "(", ")", "_", "+", "-", "=",
     "[", "]", "{", "}", ";", "'", ":", "\"", "\\", "|", ",", ".", "<", ">",
     "/", "?"}

Validation(valid, message) == [valid |-> valid, message |-> message]

validatePasswordStrengthCompositionFirst(password) ==
    IF FalsyStr(password)
    THEN Validation(FALSE, "Password cannot be empty")
    ELSE IF ~\E i \in DOMAIN password : password[i] \in Digits \cup Specials
    THEN Validation(FALSE,
            "Password must contain at least one number or special character")
    ELSE IF Len(password) < MinPasswordLength
    THEN Validation(FALSE, "Password must be at least 8 characters long")
    ELSE Validation(TRUE, "Password meets strength requirements")

validatePasswordStrengthOffByOne(password) ==
    IF FalsyStr(password)
    THEN Validation(FALSE, "Password cannot be empty")
    ELSE IF Len(password) < MinPasswordLength - 1
    THEN Validation(FALSE, "Password must be at least 8 characters long")
    ELSE IF ~\E i \in DOMAIN password : password[i] \in Digits \cup Specials
    THEN Validation(FALSE,
            "Password must contain at least one number or special character")
    ELSE Validation(TRUE, "Password meets strength requirements")

validatePasswordStrength(password) ==
    IF FalsyStr(password)
    THEN Validation(FALSE, "Password cannot be empty")
    ELSE IF Len(password) < MinPasswordLength
    THEN Validation(FALSE, "Password must be at least 8 characters long")
    ELSE IF ~\E i \in DOMAIN password : password[i] \in Digits \cup Specials
    THEN Validation(FALSE,
            "Password must contain at least one number or special character")
    ELSE Validation(TRUE, "Password meets strength requirements")

\* req.body of register and of login
Body(email, username, password, confirmPassword) ==
    [email |-> email, username |-> username, password |-> password,
     confirmPassword |-> confirmPassword]

LoginBody(email, password) == Body(email, UndefinedStr, password, UndefinedStr)

\* the errors list register builds before it touches the repository
registerErrorsShortCircuit(body) ==
    IF FalsyStr(body.email)
    THEN <<Err("email", "Email is required")>>
    ELSE IF ~isValidEmail(body.email)
    THEN <<Err("email", "Invalid email format")>>
    ELSE IF FalsyStr(body.username)
    THEN <<Err("username", "Username is required")>>
    ELSE IF FalsyStr(body.password)
    THEN <<Err("password", "Password is required")>>
    ELSE IF ~validatePasswordStrength(body.password).valid
    THEN <<Err("password", validatePasswordStrength(body.password).message)>>
    ELSE IF body.password # body.confirmPassword
    THEN <<Err("confirmPassword", "Passwords do not match")>>
    ELSE <<>>

registerErrors(body) ==
    (IF FalsyStr(body.email)
     THEN <<Err("email", "Email is required")>>
     ELSE IF ~isValidEmail(body.email)
     THEN <<Err("email", "Invalid email format")>>
     ELSE <<>>)
    \o (IF FalsyStr(body.username)
        THEN <<Err("username", "Username is required")>>
        ELSE <<>>)
    \o (IF FalsyStr(body.password)
        THEN <<Err("password", "Password is required")>>
        ELSE IF ~validatePasswordStrength(body.password).valid
        THEN <<Err("password", validatePasswordStrength(body.password).message)>>
        ELSE <<>>)
    \o (IF body.password # body.confirmPassword
        THEN <<Err("confirmPassword", "Passwords do not match")>>
        ELSE <<>>)

loginErrorsShortCircuit(body) ==
    IF FalsyStr(body.email)
    THEN <<Err("email", "Email is required")>>
    ELSE IF ~isValidEmail(body.email)
    THEN <<Err("email", "Invalid email format")>>
    ELSE IF FalsyStr(body.password)
    THEN <<Err("password", "Password is required")>>
    ELSE <<>>

\* the errors list login builds
loginErrors(body) ==
    (IF FalsyStr(body.email)
     THEN <<Err("email", "Email is required")>>
     ELSE IF ~isValidEmail(body.email)
     THEN <<Err("email", "Invalid email format")>>
     ELSE <<>>)
    \o (IF FalsyStr(body.password)
        THEN <<Err("password", "Password is required")>>
        ELSE <<>>)

\* what register and login did with res: the response, the user and token of
\* a success body, and the auth_token cookie
Reply(http, user, token, cookie) ==
    [http |-> http, user |-> user, token |-> token, cookie |-> cookie]

Rejected(http) == Reply(http, NoPrincipal, Undefined, Undefined)

Success(status) ==
    [status |-> status, message |-> "", errors |-> <<>>, success |-> TRUE]

ValidationFailed(errors) == formatErrorResponse(400, "Validation failed", errors)

EmailInUse == ValidationFailed(<<Err("email", "Email already in use")>>)

RegistrationError ==
    formatErrorResponse(500, "Server error",
                        <<Err("general", "Server error during registration")>>)

InvalidCredentials ==
    formatErrorResponse(401, "Authentication failed",
                        <<Err("general", "Invalid email or password")>>)

LoginError ==
    formatErrorResponse(500, "Server error",
                        <<Err("general", "Server error during login")>>)

\* the duplicate check of createUser
createUserFindExact(email, us) == findFirst(email, us)

createUserFind(email, us) == findFirst(toLowerCase(email), us)

\* prisma.user.create under the unique constraints of the User table: the
\* name of the constraint that fails, or "none"
createConflict(email, username, us) ==
    IF \E u \in us : u.email = email THEN "email"
    ELSE IF \E u \in us : u.username = username THEN "username"
    ELSE "none"

\* the row prisma.user.create inserts, id being the autoincrement key
createdRow(email, username, hash, us) ==
    [id |-> Cardinality(us) + 1, email |-> email, username |-> username,
     password |-> hash]

\* the user lookup of verifyCredentials
verifyCredentialsFind(email, us) == findFirst(toLowerCase(email), us)

\* verifyCredentials once the lookup has returned: the error it throws
verifyCredentialsCheckNamesCause(found, password) ==
    IF found = NoUser
    THEN Throw("Error", "User not found")
    ELSE IF ~verifyPassword(password, found.password)
    THEN Throw("Error", "Invalid credentials")
    ELSE Ret(Undefined)

verifyCredentialsCheck(found, password) ==
    IF found = NoUser \/ ~verifyPassword(password, found.password)
    THEN Throw("Error", "Invalid credentials")
    ELSE Ret(Undefined)

\* register after createUser returned the user: token, cookie and response
registerRespondNamesCause(user, secret, t) ==
    LET tok == generateToken(user.id, DayTTL, secret, t)
    IN  IF tok.threw
        THEN Rejected(formatErrorResponse(500, "Server error",
                                          <<Err("general", tok.message)>>))
        ELSE Reply(Success(201), user, tok.value, tok.value)

registerRespond(user, secret, t) ==
    LET tok == generateToken(user.id, DayTTL, secret, t)
    IN  IF tok.threw
        THEN Rejected(RegistrationError)
        ELSE Reply(Success(201), user, tok.value, tok.value)

\* register when createUser threw an error with this message
registerCatchNamesCause(message) ==
    IF message = "Email already in use"
    THEN Rejected(EmailInUse)
    ELSE Rejected(formatErrorResponse(500, "Server error",
                                      <<Err("general", message)>>))

registerCatch(message) ==
    IF message = "Email already in use"
    THEN Rejected(EmailInUse)
    ELSE Rejected(RegistrationError)

loginRespondCookieBeforeCheck(found, password, secret, t) ==
    LET vc == verifyCredentialsCheck(found, password)
        tok == generateToken(found.id, DayTTL, secret, t)
    IN  IF found = NoUser
        THEN Rejected(InvalidCredentials)
        ELSE IF tok.threw
        THEN Rejected(LoginError)
        ELSE IF vc.threw
        THEN Reply(IF vc.message = "Invalid credentials"
                   THEN InvalidCredentials ELSE LoginError,
                   NoPrincipal, Undefined, tok.value)
        ELSE Reply(Success(200), WithoutPassword(found), tok.value, tok.value)

\* login after the lookup of verifyCredentials has returned
loginRespond(found, password, secret, t) ==
    LET vc == verifyCredentialsCheck(found, password)
    IN  IF vc.threw
        THEN IF vc.message = "Invalid credentials"
             THEN Rejected(InvalidCredentials)
             ELSE Rejected(LoginError)
        ELSE LET tok == generateToken(found.id, DayTTL, secret, t)
             IN  IF tok.threw
                 THEN Rejected(LoginError)
                 ELSE Reply(Success(200), WithoutPassword(found), tok.value,
                            tok.value)

-----------------------------------------------------------------------------
(* Register and login requests. Each await of a repository or bcrypt call    *)
(* is a point where other requests run; reqs is the bag of the requests in   *)
(* flight, last the request that completed most recently.                    *)

\* a request in flight: its body, where it waits, and its local variables;
\* existed records whether the email had a record when the request arrived
Flight(op, pc, body, existed, found, user) ==
    [op |-> op, pc |-> pc, body |-> body, existed |-> existed,
     found |-> found, user |-> user]

\* a completed request: conflict is the unique constraint its create hit
Done(q, conflict, reply) ==
    [op |-> q.op, body |-> q.body, existed |-> q.existed, found |-> q.found,
     conflict |-> conflict, out |-> reply, secret |-> secretSet]

RegisterBodies ==
    { Body(EmailA, User1, PwGood, PwGood),
      Body(EmailaX, User2, PwGood, PwGood),
      Body(EmailB, User1, PwOther, PwOther),
      Body(EmailBad, <<>>, PwShort, PwGood) }

LoginBodies ==
    { LoginBody(EmailA, PwGood),
      LoginBody(EmailaX, PwOther),
      LoginBody(EmailB, PwGood),
      LoginBody(EmailBad, <<>>) }

Init ==
    /\ now = 0
    /\ secretSet \in BOOLEAN
    /\ TOKEN_DENYLIST = {}
    /\ users = {}
    /\ reqs = EmptyBag
    /\ last = NoCall
    /\ everRevoked = {}
    /\ client = NoClient

Advance(q, next) == (reqs (-) SetToBag({q})) (+) SetToBag({next})

Complete(q, conflict, reply) ==
    /\ reqs' = reqs (-) SetToBag({q})
    /\ last' = Done(q, conflict, reply)

\* register up to the first await: validation, then createUser starts its
\* duplicate check (its own password check repeats the one that just passed)
StartRegister(body) ==
    LET q == Flight("register", "find", body,
                    \E u \in users :
                        toLowerCase(u.email) = toLowerCase(body.email),
                    NoUser, NoPrincipal)
        errors == registerErrors(body)
    IN  /\ IF errors # <<>>
           THEN /\ last' = Done(q, "none", Rejected(ValidationFailed(errors)))
                /\ UNCHANGED reqs
           ELSE /\ BagCardinality(reqs) < MaxReqs
                /\ reqs' = reqs (+) SetToBag({q})
                /\ UNCHANGED last
        /\ UNCHANGED <<client, now, secretSet, TOKEN_DENYLIST, users, everRevoked>>

RegisterFindInsertsFirst(q) ==
    LET row == createdRow(q.body.email, q.body.username,
                          bcryptHash(q.body.password), users)
    IN  /\ q.op = "register" /\ q.pc = "find"
        /\ IF createUserFind(q.body.email, users) # NoUser
           THEN /\ Complete(q, "none", registerCatch("Email already in use"))
                /\ users' = users \cup {row}
           ELSE /\ reqs' = Advance(q, [q EXCEPT !.pc = "create"])
                /\ UNCHANGED <<client, last, users>>
        /\ UNCHANGED <<client, now, secretSet, TOKEN_DENYLIST, everRevoked>>

\* createUser: findFirst returns
RegisterFind(q) ==
    /\ q.op = "register" /\ q.pc = "find"
    /\ IF createUserFind(q.body.email, users) # NoUser
       THEN Complete(q, "none", registerCatch("Email already in use"))
       ELSE /\ reqs' = Advance(q, [q EXCEPT !.pc = "create"])
            /\ UNCHANGED last
    /\ UNCHANGED <<client, now, secretSet, TOKEN_DENYLIST, users, everRevoked>>

\* createUser: hashPassword, then prisma.user.create runs in the database
RegisterCreateStoresRaw(q) ==
    LET email == q.body.email
        conflict == createConflict(email, q.body.username, users)
        row == createdRow(email, q.body.username, bcryptHash(q.body.password),
                          users)
    IN  /\ q.op = "register" /\ q.pc = "create"
        /\ IF conflict # "none"
           THEN /\ Complete(q, conflict, registerCatch("Failed to create user"))
                /\ UNCHANGED users
           ELSE /\ users' = users \cup {row}
                /\ reqs' = Advance(q, [q EXCEPT !.pc = "respond",
                                                !.user = WithoutPassword(row)])
                /\ UNCHANGED last
        /\ UNCHANGED <<client, now, secretSet, TOKEN_DENYLIST, everRevoked>>

RegisterCreate(q) ==
    LET email == toLowerCase(q.body.email)
        conflict == createConflict(email, q.body.username, users)
        row == createdRow(email, q.body.username, bcryptHash(q.body.password),
                          users)
    IN  /\ q.op = "register" /\ q.pc = "create"
        /\ IF conflict # "none"
           THEN /\ Complete(q, conflict, registerCatch("Failed to create user"))
                /\ UNCHANGED users
           ELSE /\ users' = users \cup {row}
                /\ reqs' = Advance(q, [q EXCEPT !.pc = "respond",
                                                !.user = WithoutPassword(row)])
                /\ UNCHANGED last
        /\ UNCHANGED <<client, now, secretSet, TOKEN_DENYLIST, everRevoked>>

\* register: createUser returned, the token is issued and the response sent
RegisterRespond(q) ==
    /\ q.op = "register" /\ q.pc = "respond"
    /\ Complete(q, "none", registerRespond(q.user, secretSet, now))
    /\ UNCHANGED <<client, now, secretSet, TOKEN_DENYLIST, users, everRevoked>>

\* login up to the first await: validation, then verifyCredentials starts
StartLogin(body) ==
    LET q == Flight("login", "find", body,
                    verifyCredentialsFind(body.email, users) # NoUser, NoUser,
                    NoPrincipal)
        errors == loginErrors(body)
    IN  /\ IF errors # <<>>
           THEN /\ last' = Done(q, "none", Rejected(ValidationFailed(errors)))
                /\ UNCHANGED reqs
           ELSE /\ BagCardinality(reqs) < MaxReqs
                /\ reqs' = reqs (+) SetToBag({q})
                /\ UNCHANGED last
        /\ UNCHANGED <<client, now, secretSet, TOKEN_DENYLIST, users, everRevoked>>

\* verifyCredentials: findFirst returns; without a user it throws at once
LoginFind(q) ==
    LET found == verifyCredentialsFind(q.body.email, users)
    IN  /\ q.op = "login" /\ q.pc = "find"
        /\ IF found = NoUser
           THEN Complete(q, "none",
                         loginRespond(NoUser, q.body.password, secretSet, now))
           ELSE /\ reqs' = Advance(q, [q EXCEPT !.pc = "compare",
                                                !.found = found])
                /\ UNCHANGED last
        /\ UNCHANGED <<client, now, secretSet, TOKEN_DENYLIST, users, everRevoked>>

\* verifyCredentials: verifyPassword returns, login issues the token
LoginCompare(q) ==
    /\ q.op = "login" /\ q.pc = "compare"
    /\ Complete(q, "none",
                loginRespond(q.found, q.body.password, secretSet, now))
    /\ UNCHANGED <<client, now, secretSet, TOKEN_DENYLIST, users, everRevoked>>

Next ==
    \/ SetSecret
    \/ DeleteSecret
    \/ \E body \in RegisterBodies : StartRegister(body)
    \/ \E q \in BagToSet(reqs) : RegisterFind(q)
    \/ \E q \in BagToSet(reqs) : RegisterCreate(q)
    \/ \E q \in BagToSet(reqs) : RegisterRespond(q)
    \/ \E body \in LoginBodies : StartLogin(body)
    \/ \E q \in BagToSet(reqs) : LoginFind(q)
    \/ \E q \in BagToSet(reqs) : LoginCompare(q)

Spec == Init /\ [][Next]_vars

-----------------------------------------------------------------------------
(* Properties of register and login *)

\* the records that hold the email of the most recent request
LastEmailRecords == { u \in users : u.email = toLowerCase(last.body.email) }

\* C5: a register request that runs concurrently with another one for the
\* same email and finds the email taken only when it creates its record
\* answers 400 'Email already in use', and one record holds the email.
C5_RegisterRace ==
    ( /\ last.op = "register"
      /\ registerErrors(last.body) = <<>>
      /\ last.conflict = "email" )
    => ( /\ last.out.http = EmailInUse
         /\ Cardinality(LastEmailRecords) = 1 )

\* C6: login with a well-formed email and a non-empty password answers the
\* same 401 'Invalid email or password', with no cookie and no token, when
\* the email has no record and when the password does not match the record.
C6_LoginFailureUniform ==
    /\ ( /\ last.op = "login"
         /\ loginErrors(last.body) = <<>>
         /\ \/ last.found = NoUser
            \/ ~bcryptCompare(last.body.password, last.found.password) )
       => last.out = Rejected(InvalidCredentials)
    /\ \A b1 \in LoginBodies, b2 \in LoginBodies :
         LET f1 == verifyCredentialsFind(b1.email, users)
             f2 == verifyCredentialsFind(b2.email, users)
         IN  ( /\ loginErrors(b1) = <<>> /\ loginErrors(b2) = <<>>
               /\ f1 = NoUser
               /\ f2 # NoUser
               /\ ~bcryptCompare(b2.password, f2.password) )
             => /\ loginRespond(f1, b1.password, secretSet, now)
                   = loginRespond(f2, b2.password, secretSet, now)
                /\ loginRespond(f1, b1.password, secretSet, now)
                   = Rejected(InvalidCredentials)

\* a login with the wrong password for an existing record was just rejected,
\* while another email has no record
C6_Witness ==
    /\ last.op = "login"
    /\ last.found # NoUser
    /\ ~bcryptCompare(last.body.password, last.found.password)
    /\ last.out.http = InvalidCredentials
    /\ \E b \in LoginBodies :
          loginErrors(b) = <<>> /\ verifyCredentialsFind(b.email, users) = NoUser

\* C7: a register whose email, up to letter case, had a record when the
\* request arrived answers 400 'Email already in use', and no second record
\* with that email exists.
C7_DuplicateRejected ==
    /\ ( /\ last.op = "register"
         /\ registerErrors(last.body) = <<>>
         /\ last.existed )
       => ( /\ last.out = Rejected(EmailInUse)
            /\ Cardinality(LastEmailRecords) = 1 )
    /\ \A u \in users, v \in users : u.email = v.email => u = v

\* a register in other letter case than the one that created the record
\* was just rejected
C7_Witness ==
    /\ last.op = "register"
    /\ last.existed
    /\ last.body.email = EmailA
    /\ \E u \in users : u.email = Emaila /\ u.username = User2
    /\ last.out.http = EmailInUse

-----------------------------------------------------------------------------
(* Lifecycle of the denylist and argument checks of the token functions *)

\* C11: once invalidateToken(t) returned true, isTokenInvalid(t) stays true
\* through every later step, also after t has expired, until
\* clearTokenDenylist is called; after clearTokenDenylist isTokenInvalid is
\* false for every non-empty string.
C11_RevocationPersists ==
    [][ /\ ( /\ last' # last
             /\ last'.op = "invalidateToken"
             /\ last'.res = Ret(JsTrue) )
           => isTokenInvalid(last'.arg, TOKEN_DENYLIST')
        /\ IF last' # last /\ last'.op = "clearTokenDenylist"
           THEN \A s \in AllStrings : ~isTokenInvalid(s, TOKEN_DENYLIST')
           ELSE \A s \in AllStrings :
                   isTokenInvalid(s, TOKEN_DENYLIST)
                   => isTokenInvalid(s, TOKEN_DENYLIST') ]_vars

\* a revoked token was just reported invalid after its expiry time, with a
\* second revoked token next to it
C11_Witness ==
    /\ last.op = "isTokenInvalid"
    /\ last.arg.typ = "jwt"
    /\ last.at >= last.arg.exp
    /\ last.res = Ret(JsTrue)
    /\ last.arg \in TOKEN_DENYLIST
    /\ Cardinality(TOKEN_DENYLIST) = 2

\* C12: invalidateToken called with null, undefined, the empty string or a
\* non-string throws 'Invalid token format', does not call verifyToken and
\* leaves the denylist unchanged.
C12_MalformedRevokeThrows ==
    [][ ( /\ last' # last
          /\ last'.op = "invalidateToken"
          /\ last'.arg \in NotNonEmptyStrings )
        => ( /\ last'.res = Throw("Error", "Invalid token format")
             /\ "verifyToken" \notin last'.out.calls
             /\ TOKEN_DENYLIST' = TOKEN_DENYLIST ) ]_vars

\* a number was just passed to invalidateToken while the denylist held a token
C12_Witness ==
    /\ last.op = "invalidateToken"
    /\ last.arg = NumberVal
    /\ last.res.threw
    /\ last.out.calls = {}
    /\ TOKEN_DENYLIST # {}


\* C13: verifyToken, with the secret set, fails with 'Token has expired' on a
\* token that carries the right signature and is past its expiry, one issued
\* with a negative expiry included, and with 'Invalid token' on a token with
\* a wrong signature or one that is no JWT.
C13_ExpiryBeforeInvalid ==
    /\ ( /\ last.op = "verifyToken"
         /\ last.secret
         /\ last.arg.typ = "jwt"
         /\ last.arg.key = "secret"
         /\ last.at >= last.arg.exp )
       => last.res = Throw("Error", "Token has expired")
    /\ ( /\ last.op = "verifyToken"
         /\ last.secret
         /\ \/ last.arg.typ # "jwt"
            \/ last.arg.key # "secret" )
       => last.res = Throw("Error", "Invalid token")
    /\ ( /\ last.op = "generateToken"
         /\ ~last.res.threw
         /\ last.arg.exp < 0 )
       => verifyToken(last.res.value, last.secret, last.at)
             = Throw("Error", "Token has expired")

\* a token signed with the secret and an elapsed expiry was just verified
C13_Witness ==
    /\ last.op = "verifyToken"
    /\ last.secret
    /\ last.arg = ElapsedJwt
    /\ last.res.message = "Token has expired"

\* the times before a token issued at time t with the default expiry expires
BeforeExpiry(t) == { u \in t..MaxTime : u < t + DayTTL }

\* C14: a token generateToken issued with a positive expiry for a number, a
\* string, null or undefined, verified before it expires under the same
\* secret, gives a payload whose userId is the id the token was issued for.
C14_TokenRoundTrip ==
    ( /\ last.op = "generateToken"
      /\ last.secret
      /\ last.arg.exp > 0 )
    => /\ ~last.res.threw
       /\ \A u \in BeforeExpiry(last.at) :
             /\ ~verifyToken(last.res.value, last.secret, u).threw
             /\ verifyToken(last.res.value, last.secret, u).value.uid
                   = last.arg.uid

\* a token was just issued for undefined
C14_Witness ==
    /\ last.op = "generateToken"
    /\ last.arg.uid = UndefinedId
    /\ last.arg.exp > 0
    /\ ~last.res.threw
    /\ last.res.value.uid = AbsentClaim
    /\ verifyToken(last.res.value, last.secret, last.at).value.uid = UndefinedId


\* the error generateToken and verifyToken throw without a secret
SecretNotSet == Throw("Error", "JWT_SECRET environment variable is not set")

\* C15: while JWT_SECRET is not set, generateToken and verifyToken throw
\* 'JWT_SECRET environment variable is not set' for every argument, a null or
\* malformed token included; the same call made again after the secret has
\* been set does not throw that error, generateToken returns a token and
\* verifyToken returns the payload of an unexpired token.
C15_SecretCheckedFirst ==
    [][ /\ ( /\ last'.op \in {"generateToken", "verifyToken"}
             /\ ~last'.secret )
           => last'.res = SecretNotSet
        /\ ( /\ last' # last
             /\ last.op \in {"generateToken", "verifyToken"}
             /\ last'.op = last.op
             /\ last'.arg = last.arg
             /\ last.res = SecretNotSet
             /\ last'.secret )
           => /\ last'.res # SecretNotSet
              /\ last'.op = "generateToken" => ~last'.res.threw
              /\ ( /\ last'.op = "verifyToken"
                   /\ last'.arg.typ = "jwt"
                   /\ last'.arg.key = "secret"
                   /\ last'.at < last'.arg.exp )
                 => last'.res = Ret(Payload(last'.arg)) ]_vars

\* verifyToken(null) has just failed for the missing secret, and the secret
\* has been set since
C15_Witness ==
    /\ last.op = "verifyToken"
    /\ last.arg = Null
    /\ ~last.secret
    /\ last.res = SecretNotSet
    /\ secretSet


-----------------------------------------------------------------------------
(* Validation of the register form *)

\* the bodies a client can post to register: every field absent, empty, bad
\* or good
FormBodies ==
    { Body(e, u, p, c) :
        e \in {UndefinedStr, <<>>, EmailBad, EmailA},
        u \in {UndefinedStr, <<>>, User1},
        p \in {UndefinedStr, <<>>, PwShort, PwPlain, PwGood},
        c \in {UndefinedStr, PwShort, PwGood} }

NextForms ==
    \/ SetSecret
    \/ DeleteSecret
    \/ \E body \in FormBodies : StartRegister(body)
    \/ \E q \in BagToSet(reqs) : RegisterFind(q)
    \/ \E q \in BagToSet(reqs) : RegisterCreate(q)
    \/ \E q \in BagToSet(reqs) : RegisterRespond(q)

SpecForms == Init /\ [][NextForms]_vars

\* the fields of the register form, in the order register checks them
Fields == <<"email", "username", "password", "confirmPassword">>

\* the entries of an errors list that name a field
EntriesOf(errors, field) == { i \in DOMAIN errors : errors[i].field = field }

-----------------------------------------------------------------------------
(* Records of the User table *)

\* the emails the lookups are given: one address in three spellings, and
\* another address
LookupEmails == {EmailA, EmailaX, Emaila, EmailB}

\* the string has no upper-case letter
IsLowerCase(s) ==
    \A i \in DOMAIN s : \A k \in DOMAIN Uppers : s[i] # Uppers[k]

\* the records whose stored email is the email in lower case
RecordsOf(email, us) == { u \in us : u.email = toLowerCase(email) }

\* C17: after any interleaving of register requests every stored email is in
\* lower case, no two records have the same email, and the duplicate check
\* of createUser, verifyCredentials and getUserByEmail find exactly the record
\* whose stored email is the input in lower case.
C17_StoredEmailLowerCase ==
    /\ \A u \in users : IsLowerCase(u.email)
    /\ \A u \in users, v \in users : u.email = v.email => u = v
    /\ \A e \in LookupEmails :
          IF RecordsOf(e, users) = {}
          THEN /\ createUserFind(e, users) = NoUser
               /\ verifyCredentialsFind(e, users) = NoUser
               /\ getUserByEmail(e, users) = NoPrincipal
          ELSE /\ {createUserFind(e, users)} = RecordsOf(e, users)
               /\ {verifyCredentialsFind(e, users)} = RecordsOf(e, users)
               /\ getUserByEmail(e, users)
                     = WithoutPassword(createUserFind(e, users))

\* two records exist, one of them registered with an upper-case letter in
\* its email
C17_Witness ==
    /\ Cardinality(users) = 2
    /\ \E u \in users : u.email = Emaila /\ u.username = User2
    /\ createUserFind(EmailA, users) # NoUser


-----------------------------------------------------------------------------
(* getProfile, and all the handlers behind the routes                        *)

\* the fields getProfile copies from req.user
ProfileFields == {"id", "username", "email", "createdAt", "updatedAt"}

ProfileServerError ==
    formatErrorResponse(500, "Server error",
                        <<Err("general", "Server error while retrieving profile")>>)

\* req.user as the gate leaves it for a record of the User table, and the
\* same object with fields added that getProfile does not return
Principal1 ==
    [id |-> 1, email |-> Emaila, username |-> User1, name |-> <<>>,
     avatar |-> <<>>, createdAt |-> 0, updatedAt |-> 0]

PrincipalWithExtras ==
    [id |-> 1, email |-> Emaila, username |-> User1, name |-> <<>>,
     avatar |-> <<>>, createdAt |-> 0, updatedAt |-> 0,
     password |-> bcryptHash(PwGood), role |-> "admin"]

ReqUsers == {Undefined, Principal1, PrincipalWithExtras}

\* !req.user
NoReqUser(reqUser) == "typ" \in DOMAIN reqUser /\ Falsy(reqUser)

\* getProfile(req, res): the response, next to the req.user it was given
getProfileEchoesUser(reqUser) ==
    IF NoReqUser(reqUser)
    THEN Outcome(ProfileServerError, reqUser, 0, {}, FALSE)
    ELSE Outcome([status |-> 200, user |-> reqUser], reqUser, 0, {}, FALSE)

getProfile(reqUser) ==
    IF NoReqUser(reqUser)
    THEN Outcome(ProfileServerError, reqUser, 0, {}, FALSE)
    ELSE Outcome([status |-> 200,
                  user |-> [f \in ProfileFields |-> reqUser[f]]],
                 reqUser, 0, {}, FALSE)

\* GET /me reaches getProfile
GetProfile(reqUser) ==
    /\ last' = Call("getProfile", Undefined, <<>>, FALSE, Ret(Undefined),
                    getProfile(reqUser))
    /\ UNCHANGED <<client, now, secretSet, TOKEN_DENYLIST, users, reqs, everRevoked>>

\* the requests the five handlers are given
HttpRegisterBodies ==
    { Body(EmailA, User1, PwGood, PwGood),
      Body(EmailBad, <<>>, PwShort, PwGood) }

HttpLoginBodies ==
    { LoginBody(EmailA, PwGood),
      LoginBody(EmailA, PwOther),
      LoginBody(EmailBad, <<>>) }

HttpCookies == {Undefined, Garbage, Jwt(1, 0, DayTTL, "secret")}

NextHttp ==
    \/ SetSecret
    \/ DeleteSecret
    \/ \E body \in HttpRegisterBodies : StartRegister(body)
    \/ \E q \in BagToSet(reqs) : RegisterFind(q)
    \/ \E q \in BagToSet(reqs) : RegisterCreate(q)
    \/ \E q \in BagToSet(reqs) : RegisterRespond(q)
    \/ \E body \in HttpLoginBodies : StartLogin(body)
    \/ \E q \in BagToSet(reqs) : LoginFind(q)
    \/ \E q \in BagToSet(reqs) : LoginCompare(q)
    \/ \E c \in HttpCookies : Authenticate(c, <<>>)
    \/ \E c \in HttpCookies, f \in BOOLEAN : Logout(c, <<>>, f)
    \/ \E u \in ReqUsers : GetProfile(u)

SpecHttp == Init /\ [][NextHttp]_vars

\* names under which a password or its hash would travel
SecretFields == {"password", "passwordHash", "passwordSalt", "hash"}

NoSecretFields(r) == DOMAIN r \cap SecretFields = {}

\* a response body, its errors entries and its user object have no such field
BodyHasNoSecret(http) ==
    /\ NoSecretFields(http)
    /\ "errors" \in DOMAIN http
       => \A i \in DOMAIN http.errors : NoSecretFields(http.errors[i])
    /\ "user" \in DOMAIN http => NoSecretFields(http.user)

\* C18: no response body of register, login, logout, the gate or getProfile
\* and no principal the gate attaches or getUserById returns has a password
\* or hash field; the user object getProfile returns has exactly the fields
\* id, username, email, createdAt and updatedAt of req.user, whatever other
\* fields req.user carries.
C18_NoPasswordInResponses ==
    /\ last.op \in {"register", "login", "authenticate", "logout", "getProfile"}
       => BodyHasNoSecret(last.out.http)
    /\ last.op \in {"register", "login", "authenticate"}
       => NoSecretFields(last.out.user)
    /\ \A u \in users : NoSecretFields(getUserById(u.id, users))
    /\ (last.op = "getProfile" /\ ~NoReqUser(last.out.user))
       => /\ last.out.http.status = 200
          /\ DOMAIN last.out.http.user = ProfileFields
          /\ \A f \in ProfileFields : last.out.http.user[f] = last.out.user[f]

\* getProfile just answered a req.user that carried a password field, while
\* the table holds a record with a password hash
C18_Witness ==
    /\ last.op = "getProfile"
    /\ "password" \in DOMAIN last.out.user
    /\ last.out.http.status = 200
    /\ \E u \in users : u.password = bcryptHash(PwGood)


-----------------------------------------------------------------------------
(* Failures inside register, login, logout and the gate *)

\* the step completes a register request whose record createUser had stored
\* and whose token generateToken refused to issue
TokenFailsAfterCreate ==
    /\ last' # last
    /\ last'.op = "register"
    /\ ~secretSet
    /\ \E q \in BagToSet(reqs) :
          /\ q.op = "register" /\ q.pc = "respond"
          /\ q.body = last'.body
          /\ reqs' = reqs (-) SetToBag({q})

\* the most recent request was such a register request
PartialFailure ==
    /\ last.op = "register"
    /\ registerErrors(last.body) = <<>>
    /\ last.conflict = "none"
    /\ last.out.http.status = 500

\* the step completes a request for the email of the most recent request that
\* arrived when the email had a record
FollowUp(op) ==
    /\ last' # last
    /\ last'.op = op
    /\ toLowerCase(last'.body.email) = toLowerCase(last.body.email)
    /\ last'.existed

\* errors of the collaborators that are none of the expected ones: the
\* database cannot be reached, bcrypt.hash fails
DatabaseError == "Can't reach database server"

HashError == "Failed to hash password: Illegal arguments"

\* error messages that include 'Password'
PasswordMessages ==
    { "Password cannot be empty",
      "Password must be at least 8 characters long",
      "Password must contain at least one number or special character" }

\* the catch block of createUser: the message of the error it throws on
createUserCatch(message) ==
    IF message = "Email already in use" \/ message \in PasswordMessages
    THEN message
    ELSE "Failed to create user"

\* the catch block of verifyCredentials
verifyCredentialsCatch(message) ==
    IF message = "Invalid credentials"
    THEN message
    ELSE "Failed to verify credentials"

\* login when verifyCredentials threw an error with this message
loginCatch(message) ==
    IF message = "Invalid credentials"
    THEN Rejected(InvalidCredentials)
    ELSE Rejected(LoginError)

\* the awaited calls of createUser that can fail, and where the request waits
\* for them
CreateUserCalls ==
    { <<"findFirst", "find", DatabaseError>>,
      <<"hashPassword", "create", HashError>>,
      <<"create", "create", DatabaseError>> }

\* createUser: an awaited call rejects, register answers
RegisterFails(q, call) ==
    /\ q.op = "register" /\ q.pc = call[2]
    /\ Complete(q, call[1], registerCatch(createUserCatch(call[3])))
    /\ UNCHANGED <<client, now, secretSet, TOKEN_DENYLIST, users, everRevoked>>

\* verifyCredentials: findFirst rejects, login answers
LoginFails(q) ==
    /\ q.op = "login" /\ q.pc = "find"
    /\ Complete(q, "findFirst",
                loginCatch(verifyCredentialsCatch(DatabaseError)))
    /\ UNCHANGED <<client, now, secretSet, TOKEN_DENYLIST, users, everRevoked>>

\* the handlers with failing collaborators next to the requests of NextHttp
NextFaulty ==
    \/ NextHttp
    \/ \E q \in BagToSet(reqs), call \in CreateUserCalls : RegisterFails(q, call)
    \/ \E q \in BagToSet(reqs) : LoginFails(q)

SpecFaulty == Init /\ [][NextFaulty]_vars

\* what C19 says of the failing request and of a second register
FailsAndRejectsRetry ==
    /\ TokenFailsAfterCreate
       => /\ last'.out = Rejected(RegistrationError)
          /\ last'.out.cookie = Undefined
          /\ \E u \in users' :
                /\ u.email = toLowerCase(last'.body.email)
                /\ bcryptCompare(last'.body.password, u.password)
    /\ (PartialFailure /\ FollowUp("register"))
       => last'.out = Rejected(EmailInUse)

\* C19 as stated: when generateToken throws after createUser stored the
\* record, register answers 500 'Server error during registration' without a
\* cookie and the record stays; a second register for the email answers 400
\* 'Email already in use' and a login with the email and password succeeds.
C19_PartialFailureThenLogin ==
    [][ /\ FailsAndRejectsRetry
        /\ ( /\ PartialFailure /\ FollowUp("login")
             /\ last'.body.password = last.body.password )
           => /\ last'.out.http = Success(200)
              /\ last'.out.cookie # Undefined ]_vars

\* C19: as above, the login succeeding when JWT_SECRET is set by the time it
\* issues its token and answering 500 'Server error during login' when
\* generateToken throws again.
C19_PartialFailureRecovers ==
    [][ /\ FailsAndRejectsRetry
        /\ ( /\ PartialFailure /\ FollowUp("login")
             /\ last'.body.password = last.body.password )
           => IF last'.secret
              THEN /\ last'.out.http = Success(200)
                   /\ last'.out.cookie # Undefined
                   /\ last'.out.user.email = toLowerCase(last.body.email)
              ELSE last'.out = Rejected(LoginError) ]_vars

\* a register request has just failed after its record was stored, and the
\* secret has been set since
C19_Witness ==
    /\ PartialFailure
    /\ last.out = Rejected(RegistrationError)
    /\ \E u \in users : u.email = toLowerCase(last.body.email)
    /\ secretSet


\* the one 500 response of each handler
GenericError(op) ==
    CASE op = "register"     -> RegistrationError
      [] op = "login"        -> LoginError
      [] op = "logout"       -> LogoutServerError
      [] op = "authenticate" -> AuthServerError
      [] op = "getProfile"   -> ProfileServerError

\* the step completes a request in which a collaborator raised an error that
\* is no validation, duplicate-email, invalid-credentials or token error
UnexpectedFailure ==
    \/ /\ last'.op = "register"
       /\ \/ last'.conflict \in {"username", "findFirst", "hashPassword", "create"}
          \/ TokenFailsAfterCreate
    \/ /\ last'.op = "login"
       /\ \/ last'.conflict = "findFirst"
          \/ /\ last'.found # NoUser
             /\ bcryptCompare(last'.body.password, last'.found.password)
             /\ ~last'.secret
    \/ /\ last'.op = "authenticate"
       /\ ~Falsy(last'.arg)
       /\ ~last'.secret

-----------------------------------------------------------------------------
(* Password Policy and Credential Hasher called on their own *)

\* longest password built from the alphabet
MaxPwLen == 9

\* a letter, a digit and a symbol that is not in the set of the policy
PolicyAlphabet == {"a", "7", "~"}

\* seven letters followed by one symbol of the set
SymbolPasswords ==
    { <<"a", "a", "a", "a", "a", "a", "a", c>> : c \in Specials }

\* the arguments of validatePasswordStrength: absent, null, and strings
PolicyPasswords ==
    UNION { [1..n -> PolicyAlphabet] : n \in 0..MaxPwLen }
    \cup SymbolPasswords
    \cup {UndefinedStr, NullStr, PwGood, PwOther, PwShort, PwPlain}

\* the arguments of hashPassword and verifyPassword
HasherPlaintexts == {<<>>, UndefinedStr, NullStr, PwGood, PwOther, PwShort}

HasherHashes ==
    {NoHash, NullHash, UndefinedHash, GarbageHash}
    \cup { bcryptHash(p) : p \in {PwGood, PwOther, PwShort} }

\* a call of the policy or of the hasher: its arguments, whether bcrypt
\* throws in it, whether it has returned, and what it returned (for the
\* policy out holds valid as value)
Cred(op, plainText, hash, fail, done, out) ==
    [op |-> op, plainText |-> plainText, hash |-> hash, fail |-> fail,
     done |-> done, out |-> out]

NoOut == Hashed(FALSE, "", FALSE, NoHash, {})

\* the calls a caller can make
CredCalls ==
    { Cred("validatePasswordStrength", p, NoHash, FALSE, FALSE, NoOut) :
        p \in PolicyPasswords }
    \cup { Cred("hashPassword", p, NoHash, f, FALSE, NoOut) :
             p \in HasherPlaintexts, f \in BOOLEAN }
    \cup { Cred("verifyPassword", p, h, f, FALSE, NoOut) :
             p \in HasherPlaintexts, h \in HasherHashes, f \in BOOLEAN }

InitCred ==
    /\ now = 0
    /\ secretSet = FALSE
    /\ TOKEN_DENYLIST = {}
    /\ users = {}
    /\ reqs = EmptyBag
    /\ last \in CredCalls
    /\ everRevoked = {}
    /\ client = NoClient

SvcValidatePasswordStrength ==
    LET v == validatePasswordStrength(last.plainText)
    IN  /\ last.op = "validatePasswordStrength"
        /\ ~last.done
        /\ last' = [last EXCEPT !.done = TRUE,
                                !.out = Hashed(FALSE, v.message, v.valid, NoHash, {})]
        /\ UNCHANGED <<client, now, secretSet, TOKEN_DENYLIST, users, reqs, everRevoked>>

SvcHashPassword ==
    /\ last.op = "hashPassword"
    /\ ~last.done
    /\ last' = [last EXCEPT !.done = TRUE,
                            !.out = hashPassword(last.plainText, last.fail)]
    /\ UNCHANGED <<client, now, secretSet, TOKEN_DENYLIST, users, reqs, everRevoked>>

SvcVerifyPassword ==
    /\ last.op = "verifyPassword"
    /\ ~last.done
    /\ last' = [last EXCEPT !.done = TRUE,
                            !.out = verifyPasswordOutcome(last.plainText, last.hash,
                                                          last.fail)]
    /\ UNCHANGED <<client, now, secretSet, TOKEN_DENYLIST, users, reqs, everRevoked>>

NextCred ==
    \/ SvcValidatePasswordStrength
    \/ SvcHashPassword
    \/ SvcVerifyPassword

SpecCred == InitCred /\ [][NextCred]_vars

\* the most recent call was of op and has returned
Returned(op) == last.op = op /\ last.done

\* the password has a digit or a symbol of the set
HasNumberOrSpecial(password) ==
    \E i \in DOMAIN password :
        password[i] \in Digits \/ password[i] \in Specials

\* the four results of the policy
PolicyResults ==
    { Validation(FALSE, "Password cannot be empty"),
      Validation(FALSE, "Password must be at least 8 characters long"),
      Validation(FALSE,
          "Password must contain at least one number or special character"),
      Validation(TRUE, "Password meets strength requirements") }

\* the result the most recent call of the policy returned
LastValidation == Validation(last.out.value, last.out.message)

\* C21: validatePasswordStrength answers an empty, null or undefined password
\* with 'Password cannot be empty', any other password of fewer than 8
\* characters with the length message, any other password without digit and
\* symbol with the composition message, and every other password with
\* valid; it returns one of these four results for every input.
C21_PolicyRulesInOrder ==
    Returned("validatePasswordStrength")
    => /\ LastValidation \in PolicyResults
       /\ LastValidation =
            ( IF last.plainText \in {<<>>, NullStr, UndefinedStr}
              THEN Validation(FALSE, "Password cannot be empty")
              ELSE IF Len(last.plainText) < 8
              THEN Validation(FALSE,
                       "Password must be at least 8 characters long")
              ELSE IF ~HasNumberOrSpecial(last.plainText)
              THEN Validation(FALSE,
                       "Password must contain at least one number or special character")
              ELSE Validation(TRUE, "Password meets strength requirements") )

\* a short password without digit or symbol was just answered with the
\* length message
C21_Witness ==
    /\ Returned("validatePasswordStrength")
    /\ last.plainText = <<"a", "~", "a">>
    /\ last.out.message = "Password must be at least 8 characters long"

\* the argument of the most recent call is a string of fewer than 8
\* characters
LastIsShortString ==
    /\ Returned("validatePasswordStrength")
    /\ last.plainText \notin {NullStr, UndefinedStr}
    /\ Len(last.plainText) < 8

\* C22 as stated: every password of fewer than 8 characters gets valid =
\* false with the length message.
C22_ShortPasswordLengthMessage ==
    LastIsShortString
    => LastValidation
          = Validation(FALSE, "Password must be at least 8 characters long")

\* C22: every password of 1 to 7 characters gets valid = false with the
\* length message; the empty password gets valid = false with 'Password
\* cannot be empty'.
C22_NonEmptyShortPassword ==
    LastIsShortString
    => IF last.plainText = <<>>
       THEN LastValidation = Validation(FALSE, "Password cannot be empty")
       ELSE LastValidation
               = Validation(FALSE, "Password must be at least 8 characters long")

\* a password of 7 characters with a digit was just answered
C22_Witness ==
    /\ Returned("validatePasswordStrength")
    /\ last.plainText = <<"a", "a", "a", "a", "a", "a", "7">>
    /\ ~last.out.value
    /\ last.out.message = "Password must be at least 8 characters long"

\* C23: verifyPassword returns false without calling bcrypt.compare when the
\* plaintext or the digest is empty, null or undefined, returns false when
\* bcrypt.compare throws, returns what bcrypt.compare returns otherwise, and
\* never throws.
C23_VerifyPasswordIsTotal ==
    Returned("verifyPassword")
    => /\ ~last.out.threw
       /\ IF \/ last.plainText \in {<<>>, NullStr, UndefinedStr}
             \/ last.hash \in {NoHash, NullHash, UndefinedHash}
          THEN ~last.out.value /\ last.out.calls = {}
          ELSE IF last.fail
          THEN ~last.out.value
          ELSE last.out.value = bcryptCompare(last.plainText, last.hash)

\* bcrypt.compare has just thrown for a plaintext and its own digest
C23_Witness ==
    /\ Returned("verifyPassword")
    /\ last.fail
    /\ last.plainText = PwGood
    /\ last.hash = bcryptHash(PwGood)
    /\ ~last.out.value
    /\ last.out.calls = {"bcrypt.compare"}

-----------------------------------------------------------------------------
(* The gate and logout: what they read, in which order, and how often *)

\* the token was issued under the secret and has not expired at time t
Verifies(token, t) ==
    /\ IsString(token)
    /\ token.typ = "jwt"
    /\ token.key = "secret"
    /\ t < token.exp

GateRejected(out) ==
    /\ out.http.status \in {401, 500}
    /\ out.nextCalls = 0
    /\ "next" \notin out.calls
    /\ out.user = NoPrincipal

\* the gate called next once with req.user set and sent no response
GateAdmitted(out) ==
    /\ out.http = NoResponse
    /\ out.nextCalls = 1
    /\ "next" \in out.calls
    /\ out.user # NoPrincipal

\* C26: every call of the gate ends in exactly one of admit (next called
\* once, req.user set, no response) and reject (a 401 or 500 response, next
\* not called, req.user unset).
C26_OneTerminalOutcome ==
    last.op = "authenticate"
    => /\ GateAdmitted(last.out) \/ GateRejected(last.out)
       /\ ~(GateAdmitted(last.out) /\ GateRejected(last.out))

\* a request without cookie has just been rejected
C26_Witness ==
    /\ last.op = "authenticate"
    /\ Falsy(last.arg)
    /\ last.out.http = TokenMissing
    /\ GateRejected(last.out)

\* the token logout presents: the second part of the Authorization header
\* when there is one and it is not empty, the cookie otherwise
PresentedToken(cookie, hdr) ==
    IF Len(hdr) >= 2 /\ hdr[2] \notin {EmptyStr, Undefined, Null}
    THEN hdr[2]
    ELSE cookie

RepeatsLogout ==
    /\ last.op = "logout"
    /\ last'.op = "logout"
    /\ last'.arg = last.arg
    /\ last'.hdr = last.hdr
    /\ last'.secret = last.secret

\* C28 as stated: two logouts in a row with the same token, or with none,
\* both respond 200, and the second one leaves the denylist as the first one
\* left it.
C28_LogoutIdempotent ==
    [][ RepeatsLogout
        => /\ last.out.http = LoggedOut
           /\ last'.out.http = LoggedOut
           /\ TOKEN_DENYLIST' = TOKEN_DENYLIST ]_vars

\* C28: two logouts in a row with the same token, or with none, in both of
\* which res.clearCookie does not throw, both respond 200, and the second one
\* leaves the denylist as the first one left it; a logout in which
\* res.clearCookie throws responds 500.
C28_ClearedLogoutIdempotent ==
    [][ RepeatsLogout
        => /\ (~last.fail /\ ~last'.fail)
              => /\ last.out.http = LoggedOut
                 /\ last'.out.http = LoggedOut
                 /\ TOKEN_DENYLIST' = TOKEN_DENYLIST
           /\ last.fail => last.out.http = LogoutServerError
           /\ last'.fail => last'.out.http = LogoutServerError ]_vars

\* a logout has just been repeated for a token that an earlier logout
\* revoked and that has expired since
C28_Witness ==
    /\ last.op = "logout"
    /\ ~last.fail
    /\ last.secret
    /\ last.hdr = <<>>
    /\ last.arg = Jwt(1, 0, DayTTL, "secret")
    /\ last.arg \in TOKEN_DENYLIST
    /\ last.res = Ret(JsFalse)
    /\ last.out.http = LoggedOut

\* C29: logout calls invalidateToken only after the cookie is cleared; when
\* res.clearCookie throws, it responds 500 'Server error during logout',
\* does not call invalidateToken and leaves the denylist unchanged.
C29_ClearBeforeRevoke ==
    [][ (last' # last /\ last'.op = "logout")
        => /\ "invalidateToken" \in last'.out.calls => last'.out.cookieCleared
           /\ last'.fail
              => /\ last'.out.http = LogoutServerError
                 /\ last'.out.http.status = 500
                 /\ "invalidateToken" \notin last'.out.calls
                 /\ TOKEN_DENYLIST' = TOKEN_DENYLIST ]_vars

\* res.clearCookie has just thrown in a logout that presented a token which
\* verifies and is not revoked
C29_Witness ==
    /\ last.op = "logout"
    /\ last.fail
    /\ last.secret
    /\ Verifies(last.arg, last.at)
    /\ last.hdr = <<>>
    /\ last.arg \notin TOKEN_DENYLIST
    /\ last.out.http = LogoutServerError

-----------------------------------------------------------------------------
(* Revocation, verification and lookup leave each other alone *)

\* the step is a call of op that differs from the call before it
Calls(op) == last' # last /\ last'.op = op

\* what C31 says of verifyToken and of the denylist: a call of verifyToken
\* returns what signature, expiry and secret determine, revoked or not; a call
\* of invalidateToken(t) leaves the outcome of verifyToken(t) as it was; calls
\* of verifyToken and isTokenInvalid leave the denylist as it was
VerifyUnaffectedByRevocation ==
    /\ Calls("verifyToken")
       => /\ last'.res = verifyToken(last'.arg, last'.secret, last'.at)
          /\ TOKEN_DENYLIST' = TOKEN_DENYLIST
    /\ Calls("invalidateToken")
       => verifyToken(last'.arg, secretSet', now')
             = verifyToken(last'.arg, secretSet, now)
    /\ Calls("isTokenInvalid") => TOKEN_DENYLIST' = TOKEN_DENYLIST

\* C31 as stated: revocation does not change verification, verifyToken and
\* isTokenInvalid do not modify the denylist, and isTokenInvalid(t) for every
\* string t is true iff t is in the denylist.
C31_LookupIsMembership ==
    [][ /\ VerifyUnaffectedByRevocation
        /\ (Calls("isTokenInvalid") /\ IsString(last'.arg))
           => (last'.res = Ret(JsTrue) <=> last'.arg \in TOKEN_DENYLIST)
        /\ Calls("isTokenInvalid") => last'.res \in {Ret(JsTrue), Ret(JsFalse)}
      ]_vars

\* C31: revocation does not change verification, verifyToken and
\* isTokenInvalid do not modify the denylist, and isTokenInvalid(t) for every
\* non-empty string t is true iff t is in the denylist, whatever its
\* signature and expiry; for the empty string it is true.
C31_LookupIsMembershipNonEmpty ==
    [][ /\ VerifyUnaffectedByRevocation
        /\ (Calls("isTokenInvalid") /\ IsString(last'.arg))
           => IF last'.arg = EmptyStr
              THEN last'.res = Ret(JsTrue) /\ last'.arg \notin TOKEN_DENYLIST
              ELSE last'.res = Ret(JsTrue) <=> last'.arg \in TOKEN_DENYLIST
        /\ Calls("isTokenInvalid") => last'.res \in {Ret(JsTrue), Ret(JsFalse)}
      ]_vars

\* verifyToken has just returned the payload of a token that is revoked
C31_Witness ==
    /\ last.op = "verifyToken"
    /\ last.arg \in TOKEN_DENYLIST
    /\ ~last.res.threw
    /\ last.res = verifyToken(last.arg, last.secret, last.at)


-----------------------------------------------------------------------------
(* Concurrent requests on the revocation store *)

\* a logout that is suspended at `await authService.invalidateToken(token)`:
\* invalidateToken has returned res, the response is not sent yet
LogoutFlight(cookie, hdr, token, res) ==
    [op |-> "logout", cookie |-> cookie, hdr |-> hdr, token |-> token,
     res |-> res]

\* logout up to its await: clearCookie, the choice of the token and the whole
\* of invalidateToken run without interruption; a logout without token, one
\* whose clearCookie throws and one whose invalidateToken throws respond in
\* the same step
LogoutBegin(cookie, header, clearThrows) ==
    LET lo == logout(cookie, header, clearThrows, TOKEN_DENYLIST, secretSet, now)
        token == OrElse(secondPart(header), cookie)
    IN  /\ Cardinality(Revoked(token, lo.res, everRevoked)) <= MaxRevoked
        /\ TOKEN_DENYLIST' = lo.denylist
        /\ everRevoked' = Revoked(token, lo.res, everRevoked)
        /\ IF clearThrows \/ Falsy(token) \/ lo.res.threw
           THEN /\ last' = Call("logout", cookie, header, clearThrows, lo.res,
                                lo.out)
                /\ reqs' = reqs
           ELSE /\ BagCardinality(reqs) < MaxReqs
                /\ reqs' = reqs (+) SetToBag({LogoutFlight(cookie, header, token,
                                                           lo.res)})
                /\ last' = last
        /\ UNCHANGED <<client, now, secretSet, users>>

LogoutSettleAddsLate(q) ==
    /\ q.op = "logout"
    /\ reqs' = reqs (-) SetToBag({q})
    /\ TOKEN_DENYLIST' = IF q.res = Ret(JsTrue)
                         THEN TOKEN_DENYLIST \cup {q.token}
                         ELSE TOKEN_DENYLIST
    /\ last' = Call("logout", q.cookie, q.hdr, FALSE, q.res,
                    Outcome(LoggedOut, NoPrincipal, 0, {"invalidateToken"}, TRUE))
    /\ UNCHANGED <<client, now, secretSet, users, everRevoked>>

\* the continuation of logout after its await: the 200 response
LogoutSettle(q) ==
    /\ q.op = "logout"
    /\ reqs' = reqs (-) SetToBag({q})
    /\ last' = Call("logout", q.cookie, q.hdr, FALSE, q.res,
                    Outcome(LoggedOut, NoPrincipal, 0, {"invalidateToken"}, TRUE))
    /\ UNCHANGED <<client, now, secretSet, TOKEN_DENYLIST, users, everRevoked>>

\* the tokens the concurrent requests present
ConcurrentTokens ==
    {Undefined, Garbage, ElapsedJwt}
    \cup { Jwt(u, 0, DayTTL, "secret") : u \in Subjects }

NextConc ==
    \/ Tick
    \/ \E c \in ConcurrentTokens, f \in BOOLEAN : LogoutBegin(c, <<>>, f)
    \/ \E q \in BagToSet(reqs) : LogoutSettle(q)
    \/ \E tok \in ConcurrentTokens : SvcIsTokenInvalid(tok)
    \/ SvcClearTokenDenylist

SpecConc == InitGate /\ [][NextConc]_vars

\* the logouts that the step has suspended
Suspended ==
    { q \in BagToSet(reqs') : CopiesIn(q, reqs') > CopiesIn(q, reqs) }

\* the step is a call of clearTokenDenylist, or changes nothing: no time
\* passes in it, and no logout is suspended or resumed
Clears ==
    /\ last'.op = "clearTokenDenylist"
    /\ reqs' = reqs
    /\ now' = now

\* C32: every step changes the denylist as one whole operation does on the
\* denylist of that moment: a clear empties it, a logout adds the one token
\* that verifies at that moment, and no other step changes it, so that the
\* operations take effect one after another in the order of these steps; a
\* logout gets what invalidateToken returns on the denylist of that moment,
\* a lookup answers membership in it, and a revoked token leaves the denylist
\* only through a clear.
C32_RevocationStoreSequential ==
    [][ /\ TOKEN_DENYLIST' # TOKEN_DENYLIST
           => \/ Clears /\ TOKEN_DENYLIST' = {}
              \/ \E q \in Suspended :
                    /\ q.res = Ret(JsTrue)
                    /\ ~verifyToken(q.token, secretSet, now).threw
                    /\ TOKEN_DENYLIST' = TOKEN_DENYLIST \cup {q.token}
        /\ \A q \in Suspended :
              /\ q.res = invalidateToken(q.token, TOKEN_DENYLIST, secretSet, now).res
              /\ q.res = Ret(JsTrue) => q.token \in TOKEN_DENYLIST'
        /\ Calls("isTokenInvalid")
           => (last'.res = Ret(JsTrue))
                 = isTokenInvalid(last'.arg, TOKEN_DENYLIST)
        /\ ~(TOKEN_DENYLIST \subseteq TOKEN_DENYLIST')
           => Clears
      ]_vars

\* two logouts are suspended at once, one with each token, both tokens are
\* revoked, and a lookup has just answered
C32_Witness ==
    /\ \E q1, q2 \in BagToSet(reqs) :
          /\ q1.token # q2.token
          /\ q1.res = Ret(JsTrue)
          /\ q2.res = Ret(JsTrue)
          /\ {q1.token, q2.token} \subseteq TOKEN_DENYLIST
    /\ last.op = "isTokenInvalid"
    /\ last.res = Ret(JsTrue)


-----------------------------------------------------------------------------
(* The session cookie of register and login *)

\* the status with which the handler reports success
SuccessStatus(op) == IF op = "register" THEN 201 ELSE 200

\* C33: register and login set the auth_token cookie iff they respond 201
\* (register) or 200 (login); the cookie then equals the token of the body,
\* and the subject of that token is the id of the user of the body; a 400,
\* 401 or 500 response sets no cookie.
C33_CookieOnlyOnSuccess ==
    last.op \in {"register", "login"}
    => /\ last.out.cookie # Undefined
          <=> last.out.http.status = SuccessStatus(last.op)
       /\ last.out.http.status \in {SuccessStatus(last.op), 400, 401, 500}
       /\ last.out.cookie # Undefined
          => /\ last.out.cookie = last.out.token
             /\ IsString(last.out.token)
             /\ last.out.user # NoPrincipal
             /\ Payload(last.out.token).uid = last.out.user.id
       /\ last.out.http.status \in {400, 401, 500}
          => last.out.cookie = Undefined

\* a login has just succeeded and set the cookie
C33_Witness ==
    /\ last.op = "login"
    /\ last.out.http.status = 200
    /\ last.out.cookie # Undefined
    /\ last.out.cookie = last.out.token
    /\ Payload(last.out.token).uid = last.out.user.id


-----------------------------------------------------------------------------
(* The validation of login *)

\* the bodies of POST /login: every combination of an absent, empty,
\* malformed or well-formed email with an absent, empty or present password
LoginFormBodies ==
    { LoginBody(e, p) :
        e \in {UndefinedStr, NullStr, <<>>, EmailBad, EmailA, EmailB},
        p \in {UndefinedStr, <<>>, PwGood, PwOther} }

NextLoginForms ==
    \/ SetSecret
    \/ DeleteSecret
    \/ \E body \in LoginFormBodies : StartLogin(body)
    \/ \E q \in BagToSet(reqs) : LoginFind(q)
    \/ \E q \in BagToSet(reqs) : LoginCompare(q)

SpecLoginForms == InitGate /\ [][NextLoginForms]_vars

\* the email of the body is missing or malformed
BadEmail(body) == body.email \in {UndefinedStr, NullStr, <<>>, EmailBad}

\* the password of the body is missing
NoPassword(body) == body.password \in {UndefinedStr, NullStr, <<>>}

\* C34: login answers a body whose email is missing or malformed or whose
\* password is missing at once with one 400 'Validation failed' that lists an
\* entry for each of the two fields at fault, email first (two entries when
\* both are missing); verifyCredentials is awaited, and a token is issued,
\* only for a body without such a fault.
C34_LoginValidatesFirst ==
    [][ /\ (last' # last /\ last'.op = "login")
           => LET body == last'.body
                  sent == last'.out.http.errors
                  answeredAtOnce == reqs' = reqs
              IN  /\ answeredAtOnce <=> (BadEmail(body) \/ NoPassword(body))
                  /\ answeredAtOnce
                     => /\ last'.out = Rejected(ValidationFailed(sent))
                        /\ last'.out.http.status = 400
                        /\ Len(sent) = (IF BadEmail(body) THEN 1 ELSE 0)
                                       + (IF NoPassword(body) THEN 1 ELSE 0)
                        /\ BadEmail(body) => sent[1].field = "email"
                        /\ NoPassword(body) => sent[Len(sent)].field = "password"
                  /\ (body.email \in {UndefinedStr, NullStr, <<>>}
                      /\ NoPassword(body))
                     => sent = <<Err("email", "Email is required"),
                                 Err("password", "Password is required")>>
                  /\ last'.out.token # Undefined
                     => ~BadEmail(body) /\ ~NoPassword(body)
        /\ \A q \in BagToSet(reqs') :
              q.op = "login" => ~BadEmail(q.body) /\ ~NoPassword(q.body)
      ]_vars

\* a body without email and without password was just answered
C34_Witness ==
    /\ last.op = "login"
    /\ last.body = LoginBody(UndefinedStr, UndefinedStr)
    /\ last.out.http.status = 400
    /\ Len(last.out.http.errors) = 2


-----------------------------------------------------------------------------
(* What the handlers write *)

\* the step completes a request of op with a response that differs from the
\* last one
Answers(op) == last' # last /\ last'.op = op

\* C35: a register answered with 400 and a login answered with 400 or 401
\* leave the user records and the denylist as they were, and such a register
\* was answered at once or after the duplicate check, before any create;
\* login and the gate never change the user records; the user records change
\* only in the create step of a register, by one added record, and the
\* denylist changes only in logout.
C35_RejectedLeaveState ==
    [][ /\ (Answers("register") /\ last'.out.http.status = 400)
           => /\ users' = users
              /\ TOKEN_DENYLIST' = TOKEN_DENYLIST
              /\ \/ reqs' = reqs
                 \/ \E q \in BagToSet(reqs) :
                       /\ q.op = "register"
                       /\ q.pc = "find"
                       /\ reqs' = reqs (-) SetToBag({q})
        /\ (Answers("login") /\ last'.out.http.status \in {400, 401})
           => /\ users' = users
              /\ TOKEN_DENYLIST' = TOKEN_DENYLIST
        /\ (Answers("login") \/ Answers("authenticate")) => users' = users
        /\ users' # users
           => /\ \E q \in BagToSet(reqs) :
                    /\ q.op = "register"
                    /\ q.pc = "create"
                    /\ CopiesIn(q, reqs') < CopiesIn(q, reqs)
              /\ users \subseteq users'
              /\ Cardinality(users') = Cardinality(users) + 1
        /\ TOKEN_DENYLIST' # TOKEN_DENYLIST => last'.op = "logout"
      ]_vars

\* a register for an email that has a record was just answered with 400
\* after its duplicate check
C35_Witness ==
    /\ last.op = "register"
    /\ last.existed
    /\ last.out = Rejected(EmailInUse)
    /\ \E u \in users : toLowerCase(u.email) = toLowerCase(last.body.email)


-----------------------------------------------------------------------------
(* The members of the denylist *)

\* C36 as stated: every member of the denylist is a non-empty string that
\* verified when it was added, no member is expired, malformed or a
\* non-string, only invalidateToken adds and only clearTokenDenylist removes.
C36_MembersVerify ==
    [][ /\ \A tok \in TOKEN_DENYLIST' : Verifies(tok, now')
        /\ \A tok \in TOKEN_DENYLIST' \ TOKEN_DENYLIST :
              /\ last'.op = "invalidateToken"
              /\ tok = last'.arg
              /\ secretSet
              /\ Verifies(tok, now)
        /\ ~(TOKEN_DENYLIST \subseteq TOKEN_DENYLIST')
           => last'.op = "clearTokenDenylist"
      ]_vars

\* C36: every member of the denylist is a non-empty string that verified
\* (correct signature, unexpired, secret set) when it was added; no value
\* that is malformed, wrongly signed, a non-string, or expired at that moment
\* becomes a member, while a member that expires later stays; only
\* invalidateToken adds and only clearTokenDenylist removes.
C36_MembersVerifiedWhenAdded ==
    [][ /\ \A tok \in TOKEN_DENYLIST' :
              /\ IsString(tok)
              /\ tok # EmptyStr
              /\ tok.typ = "jwt"
              /\ tok.key = "secret"
              /\ tok \in everRevoked'
        /\ \A tok \in TOKEN_DENYLIST' \ TOKEN_DENYLIST :
              /\ last'.op = "invalidateToken"
              /\ tok = last'.arg
              /\ last'.res = Ret(JsTrue)
              /\ secretSet
              /\ Verifies(tok, now)
              /\ TOKEN_DENYLIST' = TOKEN_DENYLIST \cup {tok}
        /\ ~(TOKEN_DENYLIST \subseteq TOKEN_DENYLIST')
           => last'.op = "clearTokenDenylist" /\ TOKEN_DENYLIST' = {}
      ]_vars

\* a member of the denylist has expired since it was added
C36_Witness ==
    \E tok \in TOKEN_DENYLIST : tok.typ = "jwt" /\ now >= tok.exp



(***************************************************************************)
(* The client: AuthProvider (packages/client/context/AuthContext.jsx).     *)
(* The provider holds user, isLoading and error; checkAuth, login and      *)
(* logout are async functions that set the state, await one HTTP call and  *)
(* set the state again when the call settles.  Any of them can be called   *)
(* while another is awaiting, and the calls settle in any order.           *)
(***************************************************************************)

\* the user object of a response body; id 0 stands for null / no user
Profile(id) == [id |-> id]

NullUser == Profile(0)

\* error === null
NoError == ""

\* what axios hands back: the promise resolves with a 2xx response, or
\* rejects with err.response (status, data.message) or with no response
Axios(settled, hasResponse, status, user, message) ==
    [settled |-> settled, hasResponse |-> hasResponse, status |-> status,
     user |-> user, message |-> message]

AxiosResponses ==
    {Axios("resolved", TRUE, 200, Profile(1), ""),
     Axios("resolved", TRUE, 200, Profile(2), ""),
     Axios("resolved", TRUE, 200, NullUser, ""),
     Axios("resolved", TRUE, 204, NullUser, ""),
     Axios("rejected", TRUE, 401, NullUser, "Authentication token missing"),
     Axios("rejected", TRUE, 500, NullUser, ""),
     Axios("rejected", FALSE, 0, NullUser, "")}

\* err.response?.data?.message || fallback
errorMessage(r, fallback) ==
    IF r.hasResponse /\ r.message # "" THEN r.message ELSE fallback

\* useState(null), useState(true), useState(null)
AuthState(user, isLoading, error) ==
    [user |-> user, isLoading |-> isLoading, error |-> error]

\* the first two statements of checkAuth, login and logout
startCall(state) == AuthState(state.user, TRUE, NoError)

\* checkAuth after its await: try, catch and finally
checkAuth(state, r) ==
    LET user == IF r.settled = "resolved"
                THEN (IF r.status = 200 /\ r.user # NullUser
                      THEN r.user ELSE NullUser)
                ELSE (IF r.hasResponse /\ r.status = 401
                      THEN NullUser ELSE state.user)
        error == IF r.settled = "resolved" THEN state.error
                 ELSE errorMessage(r, "Authentication check failed")
    IN  AuthState(user, FALSE, error)

\* login resolves only with status 200 and a user in the body
loginResolves(r) ==
    r.settled = "resolved" /\ r.status = 200 /\ r.user # NullUser

\* login after its await; new Error('Invalid login response') has no
\* response, so its message is the fallback
login(state, r) ==
    IF loginResolves(r)
    THEN AuthState(r.user, FALSE, state.error)
    ELSE AuthState(state.user, FALSE,
                   IF r.settled = "rejected"
                   THEN errorMessage(r, "Login failed") ELSE "Login failed")

logoutResolves(r) == r.settled = "resolved" /\ r.status = 200

\* logout after its await
clientLogout(state, r) ==
    IF logoutResolves(r)
    THEN AuthState(NullUser, FALSE, state.error)
    ELSE AuthState(state.user, FALSE,
                   IF r.settled = "rejected"
                   THEN errorMessage(r, "Logout failed") ELSE "Logout failed")

\* one call awaiting its response; stale marks a checkAuth that was
\* awaiting when a login resolved
Pending(id, op, stale) == [id |-> id, op |-> op, stale |-> stale]

\* the provider: its state, the calls that are awaiting, and the user that
\* the latest login put in place (NullUser once a logout or a later
\* checkAuth has ended that session)
Provider(state, calls, session) ==
    [component |-> "AuthProvider", state |-> state, calls |-> calls,
     session |-> session]

\* the settled call and its response
Settled(q, r) == [op |-> q.op, call |-> q, response |-> r]

\* the provider after mount: the effect has called checkAuth
InitAuth ==
    /\ now = 0
    /\ secretSet = TRUE
    /\ TOKEN_DENYLIST = {}
    /\ users = {SeedUser}
    /\ reqs = EmptyBag
    /\ last = NoCall
    /\ everRevoked = {}
    /\ client = Provider(startCall(AuthState(NullUser, TRUE, NoError)),
                         {Pending(1, "checkAuth", FALSE)}, NullUser)

FreeIds == (1..(MaxReqs + 1)) \ {q.id : q \in client.calls}

\* a consumer calls checkAuth(), login(email, password) or logout()
ClientCall(op) ==
    /\ FreeIds # {}
    /\ LET id == CHOOSE i \in FreeIds : \A j \in FreeIds : i <= j
       IN  client' = Provider(startCall(client.state),
                              client.calls \cup {Pending(id, op, FALSE)},
                              client.session)
    /\ UNCHANGED <<now, secretSet, TOKEN_DENYLIST, users, reqs, last,
                   everRevoked>>

\* the response to a checkAuth arrives
SettleCheckAuth(q, r) ==
    /\ q \in client.calls
    /\ q.op = "checkAuth"
    /\ LET others == client.calls \ {q}
           state == checkAuth(client.state, r)
       IN  client' = Provider(state, others,
                              IF q.stale /\ state.user = client.state.user
                              THEN client.session ELSE NullUser)
    /\ last' = Settled(q, r)
    /\ UNCHANGED <<now, secretSet, TOKEN_DENYLIST, users, reqs, everRevoked>>

\* the response to a login arrives
SettleLogin(q, r) ==
    /\ q \in client.calls
    /\ q.op = "login"
    /\ LET others == client.calls \ {q}
       IN  client' =
             IF loginResolves(r)
             THEN Provider(login(client.state, r),
                           {IF p.op = "checkAuth"
                            THEN Pending(p.id, p.op, TRUE) ELSE p : p \in others},
                           r.user)
             ELSE Provider(login(client.state, r), others, client.session)
    /\ last' = Settled(q, r)
    /\ UNCHANGED <<now, secretSet, TOKEN_DENYLIST, users, reqs, everRevoked>>

\* the response to a logout arrives
SettleLogout(q, r) ==
    /\ q \in client.calls
    /\ q.op = "logout"
    /\ client' = Provider(clientLogout(client.state, r), client.calls \ {q},
                          IF logoutResolves(r) THEN NullUser
                          ELSE client.session)
    /\ last' = Settled(q, r)
    /\ UNCHANGED <<now, secretSet, TOKEN_DENYLIST, users, reqs, everRevoked>>

NextAuth ==
    \/ \E op \in {"checkAuth", "login", "logout"} : ClientCall(op)
    \/ \E q \in client.calls, r \in AxiosResponses : SettleCheckAuth(q, r)
    \/ \E q \in client.calls, r \in AxiosResponses : SettleLogin(q, r)
    \/ \E q \in client.calls, r \in AxiosResponses : SettleLogout(q, r)

SpecAuth == InitAuth /\ [][NextAuth]_vars

\* C37: isLoading is true in every state where a checkAuth, login or logout
\* is still awaiting its response, also when calls overlap and settle in any
\* order, and false once none is awaiting
C37_LoadingTracksCalls ==
    client.state.isLoading = (client.calls # {})

\* the step settles the call q
Settles(q) ==
    /\ q \in client.calls
    /\ last'.call = q
    /\ client'.calls # client.calls
    /\ q.id \notin {p.id : p \in client'.calls}

\* C38: the user that a resolved login put in place stays until a logout
\* resolves, a later login resolves or a checkAuth started after the login
\* settles; the response to a checkAuth that was awaiting when the login
\* resolved never clears or replaces it
C38_LoginUserKept ==
    [][(client.session # NullUser /\ client.state.user = client.session)
         => \/ client'.state.user = client.state.user
            \/ client'.state.user = client'.session
            \/ \E q \in client.calls :
                 /\ Settles(q)
                 /\ \/ q.op = "logout" /\ logoutResolves(last'.response)
                    \/ q.op = "checkAuth" /\ ~q.stale]_vars


(***************************************************************************)
(* The route guards (packages/client/routes/ProtectedRoute.jsx) render     *)
(* from the provider's state.                                              *)
(***************************************************************************)

Spinner == [render |-> "LoadingSpinner", to |-> ""]

Navigate(to) == [render |-> "Navigate", to |-> to]

Children == [render |-> "children", to |-> ""]

ProtectedRoute(state) ==
    IF state.isLoading THEN Spinner
    ELSE IF state.error # NoError THEN Navigate("/login")
    ELSE IF state.user = NullUser THEN Navigate("/login")
    ELSE Children

\* a guard that looks at the user before the error
PublicOnlyRouteUserFirst(state) ==
    IF state.isLoading THEN Spinner
    ELSE IF state.user # NullUser THEN Navigate("/profile")
    ELSE Children

PublicOnlyRoute(state) ==
    IF state.isLoading THEN Spinner
    ELSE IF state.error # NoError THEN Children
    ELSE IF state.user # NullUser THEN Navigate("/profile")
    ELSE Children

Redirects(element) == element.render = "Navigate"

\* C39: in every state of the provider ProtectedRoute renders its children
\* only when isLoading is false, error is empty and user is non-null; when
\* isLoading is false exactly one of the two guards redirects, so the page a
\* guard redirects to does not redirect back in the same state
C39_GuardsNeverLoop ==
    LET state == client.state
    IN  /\ ProtectedRoute(state) = Children
             => ~state.isLoading /\ state.error = NoError
                /\ state.user # NullUser
        /\ ~state.isLoading
             => Redirects(ProtectedRoute(state))
                  # Redirects(PublicOnlyRoute(state))
        /\ ~(/\ ProtectedRoute(state) = Navigate("/login")
             /\ PublicOnlyRoute(state) = Navigate("/profile"))

\* a failed logout has left both a user and an error, and nothing is loading
C39_Witness ==
    /\ client.component = "AuthProvider"
    /\ ~client.state.isLoading
    /\ client.state.error # NoError
    /\ client.state.user # NullUser
    /\ last.op = "logout"
    /\ ProtectedRoute(client.state) = Navigate("/login")
    /\ PublicOnlyRoute(client.state) = Children


(***************************************************************************)
(* The client: the Register form (components/Auth/Register.jsx) and the    *)
(* server's register handler that answers its POST /api/register.          *)
(***************************************************************************)

\* the four inputs of the form
Form(name, email, password, confirmPassword) ==
    [name |-> name, email |-> email, password |-> password,
     confirmPassword |-> confirmPassword]

\* String.prototype.trim is empty exactly when every character is whitespace
TrimIsEmpty(s) == \A i \in DOMAIN s : s[i] \in Whitespace

\* validateForm: newErrors, one message per field, "" where the field has none
validateForm(form) ==
    [name |-> IF TrimIsEmpty(form.name) THEN "Name is required" ELSE "",
     email |-> IF form.email = <<>> THEN "Email is required"
               ELSE IF ~isValidEmail(form.email)
               THEN "Please enter a valid email address"
               ELSE "",
     password |-> IF form.password = <<>> THEN "Password is required"
                  ELSE IF Len(form.password) < 8
                  THEN "Password must be at least 8 characters long"
                  ELSE "",
     confirmPassword |-> IF form.confirmPassword = <<>>
                         THEN "Please confirm your password"
                         ELSE IF form.password # form.confirmPassword
                         THEN "Passwords do not match"
                         ELSE ""]

NoFormErrors ==
    [name |-> "", email |-> "", password |-> "", confirmPassword |-> ""]

\* the JSON body handleSubmit posts
FormPost(form) ==
    [name |-> form.name, email |-> form.email, password |-> form.password]

\* const { email, username, password, confirmPassword } = req.body, for the
\* body the form posted: the keys it does not carry are undefined
RequestBody(post) ==
    Body(post.email, UndefinedStr, post.password, UndefinedStr)

\* the HTTP exchange of the form: idle, request on its way to the server,
\* handler awaiting the repository, or response on its way back
Wire(at, reply) == [at |-> at, reply |-> reply]

NoReply == Rejected(NoResponse)

\* the Register component
RegisterForm(form, errors, serverError, isLoading, wire, navigated) ==
    [component |-> "Register", form |-> form, errors |-> errors,
     serverError |-> serverError, isLoading |-> isLoading, wire |-> wire,
     navigated |-> navigated]

FormInputs ==
    { Form(n, e, p, c) :
        n \in {<<>>, <<" ">>, User1},
        e \in {<<>>, EmailBad, EmailA, EmailB},
        p \in {<<>>, PwShort, PwPlain, PwGood},
        c \in {<<>>, PwPlain, PwGood, PwOther} }

\* registrations that reach the API without the form
ApiBodies == { Body(EmailB, User2, PwGood, PwGood) }

\* the form is filled in, the database is empty
InitRegister ==
    /\ now = 0
    /\ secretSet = TRUE
    /\ TOKEN_DENYLIST = {}
    /\ users = {}
    /\ reqs = EmptyBag
    /\ last = NoCall
    /\ everRevoked = {}
    /\ \E form \in FormInputs :
         client = RegisterForm(form, NoFormErrors, "", FALSE,
                               Wire("idle", NoReply), FALSE)

\* handleSubmit up to its await; the submit button is disabled while loading
HandleSubmit ==
    LET errors == validateForm(client.form)
    IN  /\ client.component = "Register"
        /\ ~client.isLoading
        /\ client.wire.at = "idle"
        /\ client' =
             IF errors # NoFormErrors
             THEN [client EXCEPT !.serverError = "", !.errors = errors]
             ELSE [client EXCEPT !.serverError = "", !.errors = errors,
                                 !.isLoading = TRUE,
                                 !.wire = Wire("request", NoReply)]
        /\ UNCHANGED <<now, secretSet, TOKEN_DENYLIST, users, reqs, last,
                       everRevoked>>

\* register up to its first await, for the request the form posted
RegisterFormPost ==
    LET body == RequestBody(FormPost(client.form))
        q == Flight("register", "find", body,
                    \E u \in users :
                        toLowerCase(u.email) = toLowerCase(body.email),
                    NoUser, NoPrincipal)
        errors == registerErrors(body)
    IN  /\ client.component = "Register"
        /\ client.wire.at = "request"
        /\ IF errors # <<>>
           THEN /\ last' = Done(q, "none", Rejected(ValidationFailed(errors)))
                /\ client' = [client EXCEPT !.wire =
                                Wire("response",
                                     Rejected(ValidationFailed(errors)))]
                /\ UNCHANGED reqs
           ELSE /\ BagCardinality(reqs) < MaxReqs
                /\ reqs' = reqs (+) SetToBag({q})
                /\ client' = [client EXCEPT !.wire = Wire("server", NoReply)]
                /\ UNCHANGED last
        /\ UNCHANGED <<now, secretSet, TOKEN_DENYLIST, users, everRevoked>>

\* handleSubmit after its await: axios resolves on 2xx and rejects otherwise
\* the response is the one register sent at once, or the one it sent when
\* the repository calls it awaited had returned
HandleResponse ==
    LET answered == /\ client.wire.at = "server"
                    /\ last.op = "register"
                    /\ last.body = RequestBody(FormPost(client.form))
        http == IF answered THEN last.out.http ELSE client.wire.reply.http
    IN  /\ client.component = "Register"
        /\ client.wire.at = "response" \/ answered
        /\ client' =
             IF http.status >= 200 /\ http.status < 300
             THEN [client EXCEPT !.isLoading = FALSE,
                                 !.wire = Wire("idle", NoReply),
                                 !.navigated = @ \/ http.status \in {200, 201}]
             ELSE [client EXCEPT
                     !.isLoading = FALSE,
                     !.wire = Wire("idle", NoReply),
                     !.serverError =
                        IF http.message # "" THEN http.message
                        ELSE "An error occurred during registration. Please try again."]
        /\ UNCHANGED <<now, secretSet, TOKEN_DENYLIST, users, reqs, last,
                       everRevoked>>

NextRegister ==
    \/ HandleSubmit
    \/ RegisterFormPost
    \/ HandleResponse
    \/ \E body \in ApiBodies : StartRegister(body)
    \/ \E q \in BagToSet(reqs) : RegisterFind(q)
    \/ \E q \in BagToSet(reqs) : RegisterCreate(q)
    \/ \E q \in BagToSet(reqs) : RegisterRespond(q)

SpecRegister == InitRegister /\ [][NextRegister]_vars

\* the form passes its own validation, its password meets the server's
\* policy and its email has no record
AcceptableForm ==
    /\ validateForm(client.form) = NoFormErrors
    /\ validatePasswordStrength(client.form.password).valid
    /\ createUserFind(client.form.email, users) = NoUser

\* C40: a submission of the Register form that passes the form's validation
\* (name, well-formed email, password of at least 8 characters that meets the
\* server's policy, matching confirmation) with an email that has no record
\* is accepted by register: it is not turned down, and its response is 201
\* with the user record created
C40_FormAccepted ==
    [][/\ (client.wire.at = "request" /\ client'.wire.at # "request"
           /\ AcceptableForm)
          => client'.wire.at = "server"
       /\ (client.wire.at = "server" /\ client'.wire.at = "idle"
           /\ ~last.existed)
          => /\ last.out.http.status = 201
             /\ createUserFind(client.form.email, users) # NoUser]_vars

=============================================================================
